---- MODULE Spec2Model ----
(***************************************************************************)
(* A model of the iterative DNSSEC-validating resolver nsmithuk/resolver.  *)
(*                                                                         *)
(* Domain names are sequences of labels, most specific label first:        *)
(* "www.example.com." is <<"www","example","com">> and the root "." is     *)
(* <<>>.  The empty string "" (the root zone's parent) is <<"">>.           *)
(*                                                                         *)
(* The module holds several specifications over one set of variables; each *)
(* specification drives one subsystem and leaves the others idle:          *)
(*   SpecZones      the zone store (zones.get / add / getZoneList)         *)
(*   SpecAuth       dnssec.Authenticator fed responses in any order        *)
(*   SpecAuthOrder  two Authenticators fed one chain in opposite orders    *)
(*   SpecResAuth    the resolver's authenticator: main, drainer, DS tasks  *)
(*   SpecResAuthLive  SpecResAuth with every task scheduled in the end     *)
(*   SpecResolver   Resolver.exchange: label walks and nested exchanges    *)
(*   SpecFinalise   finaliseResponse and cname: the returned Response      *)
(*   SpecDomain     the domain walker: current / next / more / gap          *)
(*   SpecPoolExchange  nameserverPool.exchange, calls running concurrently   *)
(*   SpecPoolEnrich    nameserverPool.enrich and the pool's expiry           *)
(*   SpecNameserver    nameserver.exchange: UDP, then TCP                    *)
(*   SpecDnskeys       zoneImpl.dnskeys and its cache                        *)
(*   SpecIPv6          IPv6Available and the probe it starts                 *)
(*   SpecResult        Authenticator.Result over histories set by hand       *)
(*   SpecMessage       Resolver.Exchange and the message of its caller       *)
(*   SpecSession       one call with its nested exchanges and goroutines     *)
(***************************************************************************)
EXTENDS Integers, Sequences, FiniteSets, Bags, TLC

VARIABLES
  zones,      \* zone store: canonical apex -> zone (zones.zones)
  now,        \* wall clock, seconds (time.Now().Unix())
  lastCall,   \* the zones.get / getZoneList call just made, if any
  auth,       \* dnssec.Authenticator: question, inputBuffer, inputBufferIdx, results
  authOut,    \* what the latest AddResponse / Result call on auth returned
  chain,      \* a chain of responses, one per zone, root first
  fwd,        \* an Authenticator fed the chain root to leaf
  rev,        \* an Authenticator fed the chain leaf to root
  fed,        \* how many responses fwd and rev have been given
  ra,         \* resolver authenticator: finished, processing, queue, errors, auth
  raPc,       \* where main, the draining task and each DS task have got to
  raHist,     \* what main submitted and scheduled, and what the verdict saw
  walks,      \* the exchange calls of one Resolver.Exchange: walker, zone, response
  counters,   \* the session counters (atomic.Uint32), by the walk that made them
  rhist,      \* how many loop iterations got past the check, how many queried
  call,       \* the exchange that returned last: its request flags and Response
  dom,        \* a domain walker: name, currentIdx, what it yielded, its last gap call
  pool,       \* a nameserverPool: hostsWithoutAddresses, ipv4, ipv6, the next indexes, expires
  px,         \* the pool.exchange calls under way: snapshot, position, attempts made
  pe,         \* the latest pool.enrich call: its time, the expiry before, the TTLs added
  srv,        \* a nameserver: its exchange call under way and its metrics
  zk,         \* a zone's DNSKEY cache: dnskeyRecords, dnskeyExpiry, the latest dnskeys call
  v6,         \* the IPv6 probe: ipv6Check, ipv6Answered, ipv6Available, the calls under way
  rh,         \* a history of results set by hand, and what Result returned for it
  mh,         \* the dns.Msg objects of one Resolver.Exchange call: the caller's, the copy, the response
  ses         \* one Resolver.Exchange call and all it starts: the goroutines' call stacks, the session counter

zoneVars == <<zones, now, lastCall>>

authVars == <<auth, authOut>>

orderVars == <<chain, fwd, rev, fed>>

raVars == <<ra, raPc, raHist>>

resolverVars == <<walks, counters, rhist>>

laterVars == <<dom, pool, px, pe, srv, zk, v6, rh, mh, ses>>

vars == <<zoneVars, authVars, orderVars, raVars, resolverVars, call, laterVars>>

notZoneVars == <<authVars, orderVars, raVars, resolverVars, call, laterVars>>

notAuthVars == <<zoneVars, orderVars, raVars, resolverVars, call, laterVars>>

notOrderVars == <<zoneVars, authVars, raVars, resolverVars, call, laterVars>>

notRaVars == <<zoneVars, authVars, orderVars, resolverVars, call, laterVars>>

notResolverVars == <<now, lastCall, authVars, orderVars, raVars, call, laterVars>>

notFinaliseVars == <<zoneVars, authVars, orderVars, raVars, resolverVars, laterVars>>

coreVars == <<zoneVars, authVars, orderVars, raVars, resolverVars, call>>

notDomainVars == <<coreVars, pool, px, pe, srv, zk, v6, rh, mh, ses>>

notPoolExchangeVars == <<coreVars, dom, pe, srv, zk, v6, rh, mh, ses>>

notPoolEnrichVars == <<zones, lastCall, authVars, orderVars, raVars, resolverVars, call, dom, px, srv, zk, v6, rh, mh, ses>>

notNameserverVars == <<coreVars, dom, pool, px, pe, zk, v6, rh, mh, ses>>

notV6Vars == <<coreVars, dom, pool, px, pe, srv, zk, rh, mh, ses>>

notDnskeysVars ==
  <<zones, lastCall, authVars, orderVars, raVars, resolverVars, call, dom, pool, px, pe, srv, v6, rh, mh, ses>>

notHistoryVars == <<coreVars, dom, pool, px, pe, srv, zk, v6, mh, ses>>

notMessageVars == <<coreVars, dom, pool, px, pe, srv, zk, v6, rh, ses>>

notSessionVars == <<coreVars, dom, pool, px, pe, srv, zk, v6, rh, mh>>

(***************************************************************************)
(* Names                                                                   *)
(***************************************************************************)
Root == <<>>

EmptyName == <<"">>

\* dns.CountLabel
CountLabel(n) == Len(n)

\* the ancestor of n that has k labels: n[idx:] for the k-th label index from the end
Suffix(n, k) == SubSeq(n, Len(n) - k + 1, Len(n))

\* dns.IsSubDomain(parent, child): child is parent or lies below it
IsSubDomain(parent, child) ==
  /\ Len(parent) <= Len(child)
  /\ Suffix(child, Len(parent)) = parent

Suffixes(n) == { Suffix(n, k) : k \in 0..Len(n) }

\* the query names the model draws from
QNames == { <<"a", "b", "c">>, <<"b", "c">> }

\* every name that can be a zone apex for those query names
ZoneNames == UNION { Suffixes(q) : q \in QNames }

(***************************************************************************)
(* Bounds                                                                  *)
(***************************************************************************)
MaxTime == 3

MaxTTL == 1

MaxLabels == 3

MaxServers == 2

MaxExchanges == 3

(***************************************************************************)
(* Zone store                                                              *)
(***************************************************************************)
NoZone ==
  [present |-> FALSE, name |-> Root, parent |-> EmptyName, expires |-> 0, pool |-> 0]

\* A zone: apex, parent apex, and its pool.  pool tells pools apart (zones made
\* by clone share the pool of the zone they were cloned from); expires is the
\* expiry of that pool.
Zone(n, p, e, k) ==
  [present |-> TRUE, name |-> n, parent |-> p, expires |-> e, pool |-> k]

\* nameserverPool.expired: an expiry of 0 means "never"
PoolExpired(expires, t) == expires > 0 /\ expires < t

\* zones.zones[name]
Lookup(zs, n) == IF n \in DOMAIN zs THEN zs[n] ELSE NoZone

Usable(z, t) == z.present /\ ~PoolExpired(z.expires, t)

\* a plausible slip: get without the expiry test
getIgnoringExpiry(zs, t, name) ==
  [result |-> Lookup(zs, name), store |-> zs]

\* zones.get: the zone stored under name unless its pool has expired; the store
\* is only read
get(zs, t, name) ==
  LET z == Lookup(zs, name)
  IN  IF z.present /\ PoolExpired(z.expires, t)
        THEN [result |-> NoZone, store |-> zs]
        ELSE [result |-> z, store |-> zs]

\* zones.add: insert or replace by canonical apex
add(zs, z) == [zs EXCEPT ![z.name] = z]

PoolsInUse(zs) == { zs[n].pool : n \in { m \in DOMAIN zs : zs[m].present } }

\* pool := &nameserverPool{}: a pool that no stored zone holds
FreshPool(zs) ==
  LET used == PoolsInUse(zs)
  IN  CHOOSE k \in 0..Cardinality(DOMAIN zs) : k \notin used

\* Pool numbers only tell pools apart.  Renumber gives every pool of a store
\* whose apexes lie on one branch the label count of the shortest apex holding
\* it, so that stores differing in numbering alone are one state.
Leader(zs, k) ==
  LET ls == { Len(n) : n \in { m \in DOMAIN zs : zs[m].present /\ zs[m].pool = k } }
  IN  CHOOSE l \in ls : \A j \in ls : l <= j

Renumber(zs) ==
  [n \in DOMAIN zs |->
     IF zs[n].present THEN [zs[n] EXCEPT !.pool = Leader(zs, @)] ELSE zs[n]]

\* a plausible slip: enrich storing the new expiry whether or not one was set
enrichExpiresAlways(expires, t, ttl) == t + ttl

\* nameserverPool.enrich, the expiry: a pool with an expiry gets now + ttl, a
\* pool without one keeps none
enrichExpires(expires, t, ttl) == IF expires > 0 THEN t + ttl ELSE expires

\* a plausible slip: the clone keeps the parent of the zone it was made from
cloneKeepingParent(z, name, parent) == Zone(name, z.parent, z.expires, z.pool)

\* z.clone(name, parent): a zone for name that holds the pool of z
clone(z, name, parent) == Zone(name, parent, z.expires, z.pool)

\* a plausible slip: walk to the next shorter stored name instead of the parent
RECURSIVE FollowParentsBySuffix(_, _, _, _)
FollowParentsBySuffix(zs, t, z, result) ==
  IF z.name = Root
    THEN [complete |-> FALSE, list |-> result]
    ELSE LET p == Lookup(zs, Tail(z.name))
         IN  IF ~Usable(p, t)
               THEN [complete |-> FALSE, list |-> result]
               ELSE IF p.name = Root
                 THEN [complete |-> TRUE, list |-> Append(result, p)]
                 ELSE FollowParentsBySuffix(zs, t, p, Append(result, p))

\* getZoneList's inner loop: follow parent links from z; complete when the root
\* is reached, broken when a link is missing or expired
RECURSIVE FollowParents(_, _, _, _)
FollowParents(zs, t, z, result) ==
  IF z.parent = EmptyName
    THEN [complete |-> FALSE, list |-> result]
    ELSE LET p == Lookup(zs, z.parent)
         IN  IF ~Usable(p, t)
               THEN [complete |-> FALSE, list |-> result]
               ELSE IF p.name = Root
                 THEN [complete |-> TRUE, list |-> Append(result, p)]
                 ELSE FollowParents(zs, t, p, Append(result, p))

\* a plausible slip: give up with the root as soon as one chain is broken
RECURSIVE ZoneListFromRootOnBreak(_, _, _, _)
ZoneListFromRootOnBreak(zs, t, name, k) ==
  IF k < 0
    THEN <<Lookup(zs, Root)>>
    ELSE LET z == Lookup(zs, Suffix(name, k))
         IN  IF ~Usable(z, t)
               THEN ZoneListFromRootOnBreak(zs, t, name, k - 1)
               ELSE IF z.name = Root
                 THEN <<z>>
                 ELSE LET r == FollowParents(zs, t, z, <<z>>)
                      IN  IF r.complete THEN r.list ELSE <<Lookup(zs, Root)>>

\* getZoneList's outer loop over the ancestors of name, longest first; k is the
\* label count of the ancestor being tried
RECURSIVE ZoneListFrom(_, _, _, _)
ZoneListFrom(zs, t, name, k) ==
  IF k < 0
    THEN <<Lookup(zs, Root)>>
    ELSE LET z == Lookup(zs, Suffix(name, k))
         IN  IF ~Usable(z, t)
               THEN ZoneListFrom(zs, t, name, k - 1)
               ELSE IF z.name = Root
                 THEN <<z>>
                 ELSE LET r == FollowParents(zs, t, z, <<z>>)
                      IN  IF r.complete THEN r.list
                                        ELSE ZoneListFrom(zs, t, name, k - 1)

getZoneList(zs, t, name) == ZoneListFrom(zs, t, name, Len(name))

\* NewResolver: the store holds the root zone, whose pool has no expiry
InitialZones ==
  [n \in ZoneNames |-> IF n = Root THEN Zone(Root, EmptyName, 0, 0) ELSE NoZone]

NoCall == [op |-> "none", name |-> Root, wasExpired |-> FALSE,
           result |-> NoZone, unchanged |-> TRUE, list |-> <<>>]

ZonesStart ==
  /\ zones = InitialZones
  /\ now = 1
  /\ lastCall = NoCall

\* processDelegation -> createZone -> zones.add: a zone for an NS owner name
\* strictly below the current zone z, with a fresh pool expiring after the
\* minimum TTL of the NS and glue records
AddDelegatedZone ==
  \E p \in ZoneNames, n \in ZoneNames, ttl \in 0..MaxTTL :
    /\ zones[p].present
    /\ n # p /\ IsSubDomain(p, n)
    /\ zones' = Renumber(add(zones, Zone(n, p, now + ttl, FreshPool(zones))))
    /\ lastCall' = NoCall
    /\ UNCHANGED now
    /\ UNCHANGED notZoneVars

\* checkForMissingZones -> z.clone -> zones.add: a zone for an intermediate name
\* that answered with a SOA; it shares the pool (and so the expiry) of z
AddClonedZone ==
  \E p \in ZoneNames, n \in ZoneNames :
    /\ zones[p].present
    /\ n # p /\ IsSubDomain(p, n)
    /\ zones' = Renumber(add(zones, clone(zones[p], n, p)))
    /\ lastCall' = NoCall
    /\ UNCHANGED now
    /\ UNCHANGED notZoneVars

Tick ==
  /\ now < MaxTime
  /\ now' = now + 1
  /\ lastCall' = NoCall
  /\ UNCHANGED zones
  /\ UNCHANGED notZoneVars

GetZone ==
  \E n \in ZoneNames :
    LET r == get(zones, now, n)
    IN  /\ lastCall' = [op |-> "get", name |-> n,
                        wasExpired |-> zones[n].present /\ PoolExpired(zones[n].expires, now),
                        result |-> r.result, unchanged |-> (r.store = zones),
                        list |-> <<>>]
        /\ zones' = r.store
        /\ UNCHANGED now
        /\ UNCHANGED notZoneVars

GetZoneList ==
  \E q \in QNames :
    /\ lastCall' = [op |-> "list", name |-> q, wasExpired |-> FALSE,
                    result |-> NoZone, unchanged |-> TRUE,
                    list |-> getZoneList(zones, now, q)]
    /\ UNCHANGED <<zones, now>>
    /\ UNCHANGED notZoneVars

\* enrichPool's task, started by createZone for a pool that is primed but
\* needs enhancing, calls pool.enrich once the zone is in the store; every zone
\* holding that pool sees the new expiry
EnrichStoredPool ==
  \E n \in ZoneNames, ttl \in 0..MaxTTL :
    /\ zones[n].present
    /\ zones' = [m \in ZoneNames |->
                   IF zones[m].present /\ zones[m].pool = zones[n].pool
                     THEN [zones[m] EXCEPT !.expires = enrichExpires(@, now, ttl)]
                     ELSE zones[m]]
    /\ lastCall' = [NoCall EXCEPT !.op = "enrich", !.name = n]
    /\ UNCHANGED now
    /\ UNCHANGED notZoneVars

ZonesNext ==
  \/ AddDelegatedZone
  \/ AddClonedZone
  \/ EnrichStoredPool
  \/ Tick
  \/ GetZone
  \/ GetZoneList

(***************************************************************************)
(* dnssec.Authenticator (src/dnssec/authenticator.go, result.go)           *)
(*                                                                         *)
(* A message is described by what the authenticator reads of it: the name  *)
(* in its question, the signer of its RRSIGs, what its answer section      *)
(* holds, whether its authority section has a SOA or NS records, the owner *)
(* of the DS records in it, what its NSEC(3) records prove, and whether    *)
(* its signatures verify.                                                  *)
(***************************************************************************)
AuthQName == <<"b", "c">>

OtherName == <<"x">>

NoSigner == EmptyName

NoDS == EmptyName

RootTrustAnchors == Root

Msg(q, s, a, soa, ns, ds, proof, sigs) ==
  [question |-> q, signer |-> s, answer |-> a, soa |-> soa, ns |-> ns,
   ds |-> ds, proof |-> proof, sigs |-> sigs]

NoMsg == Msg(Root, NoSigner, "none", FALSE, FALSE, NoDS, "NotFound", "valid")

NoInput == [present |-> FALSE, zone |-> Root, msg |-> NoMsg]

Input(z, m) == [present |-> TRUE, zone |-> z, msg |-> m]

Child(z, k) == Suffix(AuthQName, Len(z) + k)

DelegationKinds == {"deleg_ds", "deleg_nods", "deleg_from_child"}

AnswerKinds == {"positive", "nxdomain", "badsig", "unsigned", "inconclusive"}

\* The responses a zone's servers may give to the question AuthQName.
Kinds(z) ==
  IF ~IsSubDomain(z, AuthQName) THEN {"positive"}
  ELSE AnswerKinds \cup {"badq", "foreignsig"} \cup
       (IF Len(z) + 1 <= Len(AuthQName) THEN {"deleg_ds", "deleg_nods", "childsig"} ELSE {}) \cup
       (IF Len(z) + 2 <= Len(AuthQName) THEN {"deleg_from_child"} ELSE {})

MkMsg(z, kind) ==
  CASE kind = "deleg_ds" ->
         Msg(AuthQName, z, "none", FALSE, TRUE, Child(z, 1), "NotFound", "valid")
    [] kind = "deleg_nods" ->
         Msg(AuthQName, z, "none", FALSE, TRUE, NoDS, "NsecMissingDS", "valid")
    [] kind = "deleg_from_child" ->
         Msg(AuthQName, Child(z, 1), "none", FALSE, TRUE, Child(z, 2), "NotFound", "valid")
    [] kind = "positive" ->
         Msg(AuthQName, z, "target", FALSE, FALSE, NoDS, "NotFound", "valid")
    [] kind = "nxdomain" ->
         Msg(AuthQName, z, "none", TRUE, FALSE, NoDS, "NsecNxDomain", "valid")
    [] kind = "badsig" ->
         Msg(AuthQName, z, "target", FALSE, FALSE, NoDS, "NotFound", "invalid")
    [] kind = "unsigned" ->
         Msg(AuthQName, NoSigner, "target", FALSE, FALSE, NoDS, "NotFound", "valid")
    [] kind = "inconclusive" ->
         Msg(AuthQName, z, "none", TRUE, FALSE, NoDS, "Inconclusive", "valid")
    [] kind = "badq" ->
         Msg(OtherName, z, "target", FALSE, FALSE, NoDS, "NotFound", "valid")
    [] kind = "childsig" ->
         Msg(AuthQName, Child(z, 1), "target", FALSE, FALSE, NoDS, "NotFound", "valid")
    [] kind = "foreignsig" ->
         Msg(AuthQName, OtherName, "target", FALSE, FALSE, NoDS, "NotFound", "valid")

AuthZones == Suffixes(AuthQName) \cup {OtherName}

NewResult(z, m) ==
  [zone |-> z, msg |-> m, dsRecords |-> NoDS, denialOfExistence |-> "NotFound",
   err |-> "nil", state |-> "Unknown"]

Verdict(s, r, e) == [state |-> s, r |-> r, err |-> e]

\* verifyDNSKEYs: the zone's keys are matched against the parent's DS records;
\* a DS set owned by another name matches none of them.
verifyDNSKEYs(r, dsRecordsFromParent) ==
  IF dsRecordsFromParent # r.zone
    THEN [state |-> "Insecure", err |-> "ErrKeysNotFound"]
    ELSE [state |-> "Unknown", err |-> "nil"]

\* verifyRRSETs: every RRset must carry a signature by the zone that verifies.
verifyRRSETs(r) ==
  IF r.msg.signer # r.zone \/ r.msg.sigs # "valid"
    THEN [state |-> "Bogus", err |-> "ErrBogusResultFound"]
    ELSE [state |-> "Unknown", err |-> "nil"]

validateDelegatingResponse(r) ==
  IF r.msg.ds # NoDS
    THEN Verdict("Secure", [r EXCEPT !.dsRecords = r.msg.ds], "nil")
  ELSE IF r.msg.proof \in {"NsecMissingDS", "Nsec3MissingDS", "Nsec3OptOut"}
    THEN Verdict("Secure", [r EXCEPT !.denialOfExistence = r.msg.proof], "nil")
  ELSE Verdict("Bogus", r, "ErrBogusDoeRecordsNotFound")

validatePositiveResponse(r) == Verdict("Secure", r, "nil")

validateNegativeResponse(r) ==
  IF r.msg.proof = "NotFound"
    THEN Verdict("Bogus", r, "ErrBogusDoeRecordsNotFound")
  ELSE IF r.msg.proof = "Inconclusive"
    THEN Verdict("Unknown", r, "nil")
  ELSE Verdict("Secure", [r EXCEPT !.denialOfExistence = r.msg.proof], "nil")

verify(zone, msg, dsRecordsFromParent) ==
  LET r  == NewResult(zone, msg)
      k  == verifyDNSKEYs(r, dsRecordsFromParent)
      s  == verifyRRSETs(r)
  IN  IF dsRecordsFromParent = NoDS THEN Verdict("Insecure", r, "nil")
      ELSE IF k.state # "Unknown" \/ k.err # "nil" THEN Verdict(k.state, r, k.err)
      ELSE IF s.state # "Unknown" \/ s.err # "nil" THEN Verdict(s.state, r, s.err)
      ELSE IF ~msg.soa /\ msg.answer = "none" /\ msg.ns
        THEN validateDelegatingResponse(r)
      ELSE IF ~msg.soa /\ msg.answer # "none" THEN validatePositiveResponse(r)
      ELSE IF msg.soa THEN validateNegativeResponse(r)
      ELSE Verdict("Bogus", r, "ErrFailsafeResponse")

NewAuth(q) ==
  [question |-> q,
   inputBuffer |-> [i \in 0..CountLabel(q) |-> NoInput],
   inputBufferIdx |-> 0,
   results |-> <<>>]

Outcome(a, e) == [auth |-> a, err |-> e]

\* the last accepted result; before the first, one that holds the root's
\* trust anchors
LastAccepted(a) ==
  IF a.results = <<>>
    THEN [NewResult(Root, NoMsg) EXCEPT !.dsRecords = RootTrustAnchors]
    ELSE a.results[Len(a.results)]

\* a plausible slip: the signer never compared with the owner of the DS records
ChainErrorWithoutSigner(a, zone, msg) ==
  LET last == LastAccepted(a)
  IN  IF a.results # <<>> /\ ~IsSubDomain(last.zone, zone) THEN "ErrNotSubdomain"
      ELSE IF a.results # <<>> /\ last.zone = zone THEN "ErrSameName"
      ELSE "nil"

\* The chain checks of processResponse: the error it returns before verifying,
\* or "nil".
ChainError(a, zone, msg) ==
  LET last == LastAccepted(a)
  IN  IF a.results # <<>> /\ ~IsSubDomain(last.zone, zone) THEN "ErrNotSubdomain"
      ELSE IF a.results # <<>> /\ last.zone = zone THEN "ErrSameName"
      ELSE IF msg.signer # NoSigner /\ last.dsRecords # NoDS
              /\ last.dsRecords # msg.signer
        THEN IF ~IsSubDomain(msg.signer, a.question)
               THEN "ErrNotSubdomain"
               ELSE "MissingDSRecordError"
      ELSE "nil"

Verified(a, zone, msg) ==
  LET last == IF a.results = <<>> THEN RootTrustAnchors
                                  ELSE a.results[Len(a.results)].dsRecords
      v    == verify(zone, msg, last)
  IN  [v.r EXCEPT !.err = v.err,
                  !.state = IF v.state = "Unknown" THEN "Bogus" ELSE v.state]

processResponseAppendFirst(a, zone, msg) ==
  Outcome([a EXCEPT !.results = Append(@, Verified(a, zone, msg))],
          ChainError(a, zone, msg))

processResponse(a, zone, msg) ==
  IF ChainError(a, zone, msg) # "nil"
    THEN Outcome(a, ChainError(a, zone, msg))
    ELSE Outcome([a EXCEPT !.results = Append(@, Verified(a, zone, msg))], "nil")

RECURSIVE ProcessBuffered(_)
\* The loop of AddResponse over the input buffer from inputBufferIdx on.
ProcessBuffered(a) ==
  IF a.inputBufferIdx >= CountLabel(a.question) + 1 THEN Outcome(a, "nil")
  ELSE IF ~a.inputBuffer[a.inputBufferIdx].present THEN Outcome(a, "nil")
  ELSE LET in == a.inputBuffer[a.inputBufferIdx]
           p  == processResponse(a, in.zone, in.msg)
       IN  IF p.err # "nil" THEN p
           ELSE ProcessBuffered([p.auth EXCEPT !.inputBufferIdx = @ + 1])

AddResponseUnbuffered(a, zone, msg) ==
  IF ~IsSubDomain(zone, a.question) THEN Outcome(a, "ErrNotSubdomain")
  ELSE IF ~IsSubDomain(msg.question, a.question) THEN Outcome(a, "ErrNotSubdomain")
  ELSE processResponse(a, zone, msg)

\* a plausible slip: the response buffered before the names are validated
AddResponseBufferFirst(a, zone, msg) ==
  LET position == CountLabel(zone)
      b        == [a EXCEPT !.inputBuffer[position] = Input(zone, msg)]
  IN  IF a.inputBuffer[position].present THEN Outcome(a, "ErrDuplicateInputForZone")
      ELSE IF ~IsSubDomain(zone, a.question) THEN Outcome(b, "ErrNotSubdomain")
      ELSE IF ~IsSubDomain(msg.question, a.question) THEN Outcome(b, "ErrNotSubdomain")
      ELSE ProcessBuffered(b)

AddResponse(a, zone, msg) ==
  IF ~IsSubDomain(zone, a.question) THEN Outcome(a, "ErrNotSubdomain")
  ELSE IF ~IsSubDomain(msg.question, a.question) THEN Outcome(a, "ErrNotSubdomain")
  ELSE LET position == CountLabel(zone)
       IN  IF a.inputBuffer[position].present
             THEN Outcome(a, "ErrDuplicateInputForZone")
             ELSE ProcessBuffered(
                    [a EXCEPT !.inputBuffer[position] = Input(zone, msg)])

Triple(s, d, e) == [state |-> s, doe |-> d, err |-> e]

\* a plausible slip: only the last result looked at
LastIfBogus(rs) ==
  IF rs # <<>> /\ rs[Len(rs)].state = "Bogus" THEN Len(rs) ELSE 0

FirstBogus(rs) ==
  LET S == { i \in 1..Len(rs) : rs[i].state = "Bogus" }
  IN  IF S = {} THEN 0 ELSE CHOOSE i \in S : \A j \in S : i <= j

FirstNotSecure(rs) ==
  LET S == { i \in 1..Len(rs) : rs[i].state # "Secure" }
  IN  IF S = {} THEN 0 ELSE CHOOSE i \in S : \A j \in S : i <= j

Result(a) ==
  LET rs   == a.results
      b    == FirstBogus(rs)
      n    == FirstNotSecure(rs)
      last == rs[Len(rs)]
  IN  IF rs = <<>> THEN Triple("Unknown", "NotFound", "nil")
      ELSE IF b # 0 THEN Triple("Bogus", "NotFound", rs[b].err)
      ELSE IF n = 1 THEN Triple(rs[1].state, rs[1].denialOfExistence, rs[1].err)
      ELSE IF n > 1
        THEN IF rs[n - 1].denialOfExistence # "NotFound"
               THEN Triple("Insecure", rs[n - 1].denialOfExistence, rs[n].err)
               ELSE Triple("Bogus", rs[n - 1].denialOfExistence, rs[n].err)
      ELSE IF last.denialOfExistence = "Nsec3OptOut"
        THEN Triple("Insecure", last.denialOfExistence, last.err)
      ELSE IF last.denialOfExistence # "NotFound"
        THEN Triple("Secure", last.denialOfExistence, last.err)
      ELSE IF last.msg.soa THEN Triple("Bogus", last.denialOfExistence, last.err)
      ELSE IF last.msg.answer = "target"
        THEN Triple("Secure", last.denialOfExistence, last.err)
      ELSE Triple("Bogus", last.denialOfExistence, last.err)

\* passed counts, for each place of the buffer, the calls of processResponse
\* with the input kept there.
NoOut == [op |-> "none", zone |-> Root, err |-> "nil",
          verdict |-> Triple("Unknown", "NotFound", "nil"),
          passed |-> [k \in 0..CountLabel(AuthQName) |-> 0]]

\* The places whose input the call of AddResponse that took a to o handed to
\* processResponse: none if the response was turned away before the loop,
\* else the places the loop went past and the place where it met an error.
Handed(a, o) ==
  IF o.auth.inputBuffer = a.inputBuffer THEN {}
  ELSE { k \in DOMAIN a.inputBuffer :
           /\ k >= a.inputBufferIdx
           /\ \/ k < o.auth.inputBufferIdx
              \/ k = o.auth.inputBufferIdx /\ o.err # "nil" }

AuthStart ==
  /\ auth = NewAuth(AuthQName)
  /\ authOut = NoOut

AuthIdle ==
  /\ auth = NewAuth(Root)
  /\ authOut = NoOut

\* A response of any kind, for any zone, is handed to the authenticator.
AuthAddResponse ==
  \E z \in AuthZones :
    \E kind \in Kinds(z) :
      LET o == AddResponse(auth, z, MkMsg(z, kind))
      IN  /\ auth' = o.auth
          /\ authOut' = [NoOut EXCEPT !.op = "add", !.zone = z, !.err = o.err,
                                       !.passed = [k \in DOMAIN authOut.passed |->
                                                     IF k \in Handed(auth, o)
                                                       THEN authOut.passed[k] + 1
                                                       ELSE authOut.passed[k]]]
          /\ UNCHANGED notAuthVars

AuthResult ==
  /\ authOut' = [NoOut EXCEPT !.op = "result", !.verdict = Result(auth),
                               !.passed = authOut.passed]
  /\ UNCHANGED auth
  /\ UNCHANGED notAuthVars

AuthNext ==
  \/ AuthAddResponse
  \/ AuthResult

(***************************************************************************)
(* Result over every history: the results are appended to a.results by     *)
(* hand, as the tests of Result do, root first, one for each zone of the    *)
(* chain.  A result's error is named after its place so that the error      *)
(* Result returns tells which result it was taken from.                     *)
(***************************************************************************)
States == {"Secure", "Insecure", "Bogus"}

DenialOfExistenceStates ==
  {"NotFound", "NsecMissingDS", "NsecNoData", "NsecNxDomain", "NsecWildcard",
   "Nsec3MissingDS", "Nsec3NoData", "Nsec3NxDomain", "Nsec3OptOut", "Nsec3Wildcard"}

NoDataStates == {"NsecNoData", "Nsec3NoData"}

HistoryZones == [k \in 1..(Len(AuthQName) + 1) |-> Suffix(AuthQName, k - 1)]

ErrAt == <<"err1", "err2", "err3">>

\* the result at place k of the chain: its question is the DS of the next
\* zone when ds, else the target's
HistoryResult(k, state, doe, ds) ==
  [zone |-> HistoryZones[k],
   msg |-> [soa |-> FALSE, answer |-> "target",
            question |-> IF ds /\ k < Len(HistoryZones) THEN HistoryZones[k + 1]
                         ELSE AuthQName,
            qtype |-> IF ds THEN "DS" ELSE "A"],
   dsRecords |-> NoDS, denialOfExistence |-> doe, err |-> ErrAt[k], state |-> state]

NoVerdict == Triple("none", "NotFound", "nil")

HistoryStart == rh = [results |-> <<>>, called |-> FALSE, out |-> NoVerdict]

HistoryIdle == HistoryStart

\* a.results = append(a.results, &result{...})
HistoryAppend ==
  \E state \in States, doe \in DenialOfExistenceStates, ds \in BOOLEAN :
    /\ Len(rh.results) < Len(HistoryZones)
    /\ ds => doe \in NoDataStates
    /\ rh' = [results |-> Append(rh.results,
                                HistoryResult(Len(rh.results) + 1, state, doe, ds)),
              called |-> FALSE, out |-> NoVerdict]
    /\ UNCHANGED notHistoryVars

\* a.Result()
HistoryResultCall ==
  /\ rh' = [rh EXCEPT !.called = TRUE, !.out = Result([results |-> rh.results])]
  /\ UNCHANGED notHistoryVars

HistoryNext ==
  \/ HistoryAppend
  \/ HistoryResultCall

(***************************************************************************)
(* One chain of responses given to two Authenticators, one from the root   *)
(* down and one from the leaf up.                                          *)
(***************************************************************************)
ChainKinds(z) ==
  {"absent"} \cup (Kinds(z) \ {"badq", "foreignsig", "childsig", "unsigned", "inconclusive"})

Chains == { c \in [0..Len(AuthQName) -> DelegationKinds \cup AnswerKinds \cup {"absent"}] :
              \A i \in 0..Len(AuthQName) : c[i] \in ChainKinds(Suffix(AuthQName, i)) }

Positions(c) == { i \in DOMAIN c : c[i] # "absent" }

RECURSIVE Ascending(_)
Ascending(S) ==
  IF S = {} THEN <<>>
  ELSE LET m == CHOOSE x \in S : \A y \in S : x <= y
       IN  <<m>> \o Ascending(S \ {m})

RECURSIVE Descending(_)
Descending(S) ==
  IF S = {} THEN <<>>
  ELSE LET m == CHOOSE x \in S : \A y \in S : x >= y
       IN  <<m>> \o Descending(S \ {m})

Feed(a, c, i) ==
  AddResponse(a, Suffix(AuthQName, i), MkMsg(Suffix(AuthQName, i), c[i])).auth

OrderStart ==
  /\ chain \in Chains
  /\ fwd = NewAuth(AuthQName)
  /\ rev = NewAuth(AuthQName)
  /\ fed = [f |-> 0, r |-> 0]

OrderIdle ==
  /\ chain = [i \in 0..Len(AuthQName) |-> "absent"]
  /\ fwd = NewAuth(Root)
  /\ rev = NewAuth(Root)
  /\ fed = [f |-> 0, r |-> 0]

FeedForward ==
  /\ fed.f < Cardinality(Positions(chain))
  /\ fwd' = Feed(fwd, chain, Ascending(Positions(chain))[fed.f + 1])
  /\ fed' = [fed EXCEPT !.f = @ + 1]
  /\ UNCHANGED <<chain, rev>>
  /\ UNCHANGED notOrderVars

FeedReverse ==
  /\ fed.r < Cardinality(Positions(chain))
  /\ rev' = Feed(rev, chain, Descending(Positions(chain))[fed.r + 1])
  /\ fed' = [fed EXCEPT !.r = @ + 1]
  /\ UNCHANGED <<chain, fwd>>
  /\ UNCHANGED notOrderVars

OrderNext ==
  \/ FeedForward
  \/ FeedReverse

(***************************************************************************)
(* The resolver-level authenticator (src/unnamed/part_007)                 *)
(*                                                                         *)
(* Three kinds of task share it: the exchange that owns it (main), the     *)
(* task started by newAuthenticator that drains the queue, and one task    *)
(* per DS fetch.  Inputs are numbered in the order main produced them;     *)
(* input k is either a response given to addResponse or the response of    *)
(* the DS fetch scheduled by the k-th call.                                *)
(***************************************************************************)
MaxInputs == 3

QueueCap == 8

InputIds == 1..MaxInputs

newAuthenticator ==
  [finished |-> FALSE, processing |-> 0, queue |-> <<>>, closed |-> FALSE,
   errors |-> 0, auth |-> {}]

WaitReturnsAtOnce(a) == TRUE

\* processing.Wait() returns once the counter is zero.
Wait(a) == a.processing = 0

Send(a, in) == [a EXCEPT !.queue = Append(@, in)]

CanSend(a) == ~a.closed /\ Len(a.queue) < QueueCap

RaPcStart ==
  [main |-> "run", item |-> 0, drain |-> "spawned", cur |-> 0,
   ds |-> [t \in InputIds |-> "none"]]

RaHistStart ==
  [n |-> 0, submitted |-> {}, scheduled |-> {}, usable |-> {},
   verdict |-> "none", seen |-> {}, seenDs |-> [t \in InputIds |-> "none"]]

RaStart ==
  /\ ra = newAuthenticator
  /\ raPc = RaPcStart
  /\ raHist = RaHistStart

RaIdle ==
  /\ ra = newAuthenticator
  /\ raPc = [RaPcStart EXCEPT !.main = "done", !.drain = "exit"]
  /\ raHist = RaHistStart

\* addResponse up to its send: the finished test and processing.Add(1).
MainAddResponse ==
  /\ raPc.main = "run"
  /\ raHist.n < MaxInputs
  /\ raHist' = [raHist EXCEPT !.n = @ + 1,
                              !.submitted = IF ra.finished THEN @ ELSE @ \cup {raHist.n + 1}]
  /\ IF ra.finished
       THEN UNCHANGED <<ra, raPc>>
       ELSE /\ ra' = [ra EXCEPT !.processing = @ + 1]
            /\ raPc' = [raPc EXCEPT !.main = "send", !.item = raHist.n + 1]
  /\ UNCHANGED notRaVars

\* addResponse's send on the queue; it blocks while the queue is full.
MainSend ==
  /\ raPc.main = "send"
  /\ CanSend(ra)
  /\ ra' = Send(ra, raPc.item)
  /\ raPc' = [raPc EXCEPT !.main = "run", !.item = 0]
  /\ UNCHANGED raHist
  /\ UNCHANGED notRaVars

\* addDelegationSignerLink: the finished test, processing.Add(1), and the
\* start of the fetching task.
MainAddDelegationSignerLink ==
  /\ raPc.main = "run"
  /\ raHist.n < MaxInputs
  /\ raHist' = [raHist EXCEPT !.n = @ + 1,
                              !.scheduled = IF ra.finished THEN @ ELSE @ \cup {raHist.n + 1}]
  /\ IF ra.finished
       THEN UNCHANGED <<ra, raPc>>
       ELSE /\ ra' = [ra EXCEPT !.processing = @ + 1]
            /\ raPc' = [raPc EXCEPT !.ds[raHist.n + 1] = "fetch"]
  /\ UNCHANGED notRaVars

\* The DS exchange returns.  An unusable response ends the task (the deferred
\* Done); a usable one is announced with processing.Add(1).
DsFetched ==
  \E t \in InputIds :
    /\ raPc.ds[t] = "fetch"
    /\ \E usable \in BOOLEAN :
         IF usable
           THEN /\ ra' = [ra EXCEPT !.processing = @ + 1]
                /\ raPc' = [raPc EXCEPT !.ds[t] = "send"]
                /\ raHist' = [raHist EXCEPT !.usable = @ \cup {t}]
           ELSE /\ ra' = [ra EXCEPT !.processing = @ - 1]
                /\ raPc' = [raPc EXCEPT !.ds[t] = "done"]
                /\ UNCHANGED raHist
    /\ UNCHANGED notRaVars

DsSend ==
  \E t \in InputIds :
    /\ raPc.ds[t] = "send"
    /\ CanSend(ra)
    /\ ra' = Send(ra, t)
    /\ raPc' = [raPc EXCEPT !.ds[t] = "sent"]
    /\ UNCHANGED raHist
    /\ UNCHANGED notRaVars

\* The fetching task's deferred processing.Done().
DsDone ==
  \E t \in InputIds :
    /\ raPc.ds[t] = "sent"
    /\ ra' = [ra EXCEPT !.processing = @ - 1]
    /\ raPc' = [raPc EXCEPT !.ds[t] = "done"]
    /\ UNCHANGED raHist
    /\ UNCHANGED notRaVars

\* The draining task evaluates a.queue for its range loop.  close() writes
\* a.queue without synchronisation, so once the queue is closed the task may
\* read either the closed channel or nil; ranging over nil blocks for ever.
DrainStart ==
  /\ raPc.drain = "spawned"
  /\ \E sees \in {"channel", "nil"} :
       /\ sees = "nil" => ra.closed
       /\ raPc' = [raPc EXCEPT !.drain = IF sees = "nil" THEN "blocked" ELSE "recv"]
  /\ UNCHANGED <<ra, raHist>>
  /\ UNCHANGED notRaVars

DrainReceive ==
  /\ raPc.drain = "recv"
  /\ \/ /\ ra.queue # <<>>
        /\ ra' = [ra EXCEPT !.queue = Tail(@)]
        /\ raPc' = [raPc EXCEPT !.drain = "process", !.cur = Head(ra.queue)]
     \/ /\ ra.queue = <<>>
        /\ ra.closed
        /\ raPc' = [raPc EXCEPT !.drain = "exit"]
        /\ UNCHANGED ra
  /\ UNCHANGED raHist
  /\ UNCHANGED notRaVars

\* start's loop body: a.auth.AddResponse, the error kept if there is one, Done.
DrainProcess ==
  /\ raPc.drain = "process"
  /\ \E err \in BOOLEAN :
       ra' = [ra EXCEPT !.auth = @ \cup {raPc.cur},
                        !.errors = IF err THEN @ + 1 ELSE @,
                        !.processing = @ - 1]
  /\ raPc' = [raPc EXCEPT !.drain = "recv", !.cur = 0]
  /\ UNCHANGED raHist
  /\ UNCHANGED notRaVars

\* result(): finished.Store(true), then processing.Wait().
MainResult ==
  /\ raPc.main = "run"
  /\ ra' = [ra EXCEPT !.finished = TRUE]
  /\ raPc' = [raPc EXCEPT !.main = "result_wait"]
  /\ UNCHANGED raHist
  /\ UNCHANGED notRaVars

MainResultWaited ==
  /\ raPc.main = "result_wait"
  /\ Wait(ra)
  /\ raPc' = [raPc EXCEPT !.main = "result_close"]
  /\ UNCHANGED <<ra, raHist>>
  /\ UNCHANGED notRaVars

\* close(): finished.Store(true), processing.Wait(), close(queue), queue = nil.
MainResultClose ==
  /\ raPc.main = "result_close"
  /\ Wait(ra)
  /\ ra' = [ra EXCEPT !.finished = TRUE, !.closed = TRUE]
  /\ raPc' = [raPc EXCEPT !.main = "result_verdict"]
  /\ UNCHANGED raHist
  /\ UNCHANGED notRaVars

\* The verdict: the single recorded error, or a.auth.Result().
MainVerdict ==
  /\ raPc.main = "result_verdict"
  /\ raHist' = [raHist EXCEPT !.verdict = IF ra.errors = 1 THEN "error" ELSE "Result",
                              !.seen = ra.auth,
                              !.seenDs = raPc.ds]
  /\ raPc' = [raPc EXCEPT !.main = "done"]
  /\ UNCHANGED ra
  /\ UNCHANGED notRaVars

\* exchange returns without calling result(): the deferred close() runs.
MainReturnEarly ==
  /\ raPc.main = "run"
  /\ ra' = [ra EXCEPT !.finished = TRUE]
  /\ raPc' = [raPc EXCEPT !.main = "close_wait"]
  /\ UNCHANGED raHist
  /\ UNCHANGED notRaVars

MainClose ==
  /\ raPc.main = "close_wait"
  /\ Wait(ra)
  /\ ra' = [ra EXCEPT !.closed = TRUE]
  /\ raPc' = [raPc EXCEPT !.main = "done"]
  /\ UNCHANGED raHist
  /\ UNCHANGED notRaVars

RaNext ==
  \/ MainAddResponse
  \/ MainSend
  \/ MainAddDelegationSignerLink
  \/ DsFetched
  \/ DsSend
  \/ DsDone
  \/ DrainStart
  \/ DrainReceive
  \/ DrainProcess
  \/ MainResult
  \/ MainResultWaited
  \/ MainResultClose
  \/ MainVerdict
  \/ MainReturnEarly
  \/ MainClose

(***************************************************************************)
(* Resolver.exchange: the label walk (src/unnamed/part_013)                *)
(*                                                                         *)
(* A walk is one call of Resolver.exchange.  Walk 1 is the call made by    *)
(* Resolver.Exchange; the others are the exchanges it triggers, for a      *)
(* CNAME target (cname) or a nameserver hostname (enrichPool).  What the   *)
(* nameservers answer is chosen freely at every step.  Of a response the   *)
(* walks keep what its callers look at: its error and whether it carries   *)
(* answers.                                                                *)
(***************************************************************************)
MaxQueriesPerRequest == 4

MaxWalks == 2

WalkIds == 1..MaxWalks

TopQName == <<"a", "b", "c">>

NestedQName == <<"n">>

StrayName == <<"x", "c">>

\* a name below the query name, which a zone may delegate to all the same
BelowName == <<"d", "a", "b", "c">>

ResolverNames ==
  Suffixes(TopQName) \cup Suffixes(NestedQName) \cup {StrayName, BelowName}

\* domain: the walker over the labels of a name.  len(labelIndexes) is the
\* label count plus one; position i stands for the ancestor with i labels.
domainCurrent(q, idx) == IF idx >= Len(q) + 1 THEN q ELSE Suffix(q, idx)

\* a plausible slip: the full name yielded once only
domainMoreOnce(q, idx) == idx <= Len(q)

domainMore(q, idx) == idx <= Len(q) + 1

domainLast(q, idx) == idx >= Len(q)

\* a plausible slip: the gap taken from the name after the current one
domainGapAfterCurrent(q, idx, target) ==
  IF ~IsSubDomain(target, q) THEN <<>>
  ELSE LET missing == CountLabel(target) - CountLabel(domainCurrent(q, idx)) - 1
       IN  IF missing <= 0 THEN <<>>
           ELSE [i \in 1..missing |-> Suffix(q, idx + i)]

domainGap(q, idx, target) ==
  IF ~IsSubDomain(target, q) THEN <<>>
  ELSE LET missing == CountLabel(target) - CountLabel(domainCurrent(q, idx))
       IN  IF missing <= 0 THEN <<>>
           ELSE [i \in 1..missing |-> Suffix(q, idx + i - 1)]

\* windTo: the position of target, an ancestor of q
windTo(q, target) == CountLabel(target)

WalkResponse(e, a) == [err |-> e, answer |-> a]

WalkError(e) == WalkResponse(e, FALSE)

FreeWalk ==
  [state |-> "free", kind |-> "top", parent |-> 0, qname |-> Root,
   ctr |-> 0, idx |-> 0, z |-> Root, inflight |-> {}, how |-> <<>>,
   child |-> 0, pending |-> Root, resp |-> WalkError("nil"), selfd |-> FALSE,
   linked |-> {}]

NewWalk(kind, parent, q, ctr) ==
  [FreeWalk EXCEPT !.state = "start", !.kind = kind, !.parent = parent,
                   !.qname = q, !.ctr = ctr]

\* The exchange returns r; nothing of the walk is looked at again.
Returned(w, r) ==
  [FreeWalk EXCEPT !.state = "done", !.kind = w.kind, !.parent = w.parent,
                   !.qname = w.qname, !.ctr = w.ctr, !.resp = r, !.selfd = w.selfd]

\* a plausible slip: the loop's (nil) response returned when the labels ran out
LoopExitWithResponse(w) == Returned(w, w.resp)

\* return ResponseError(ErrUnableToResolveAnswer), after the loop
LoopExit(w) == Returned(w, WalkError("ErrUnableToResolveAnswer"))

\* The counter a nested exchange counts on if it did not take it from ctx.
OwnCounter(parentCtr, self) == self

\* ctx.Value(ctxSessionQueries): a nested exchange is passed the ctx of the
\* exchange that triggered it, and so counts on the same counter.
SessionCounter(parentCtr, self) == parentCtr

\* a plausible slip: the counter kept but never compared
ExceedsMaxNever(c) == FALSE

ExceedsMax(c) == c > MaxQueriesPerRequest

\* The next label is queried without waiting for the answer.
DoNotAwait(w) == [w EXCEPT !.idx = @ + 1]

\* response := z.exchange(ctx, qmsg): the walk stops until the zone answers.
AwaitResponse(w) == [w EXCEPT !.state = "query"]

FreeSlots(ws) == { j \in WalkIds : ws[j].state = "free" }

FirstFree(ws) == CHOOSE j \in FreeSlots(ws) : \A k \in FreeSlots(ws) : j <= k

Mark(how, from, to, what) ==
  [j \in DOMAIN how |-> IF j >= from /\ j < to THEN what ELSE how[j]]

\* The apexes auth.addDelegationSignerLink is called for before the loop of a
\* query with DO set: every known zone but the root, the last of the list.
KnownLinks(known) == { known[k].name : k \in 1..(Len(known) - 1) }

\* exchange up to its loop: the known zones, the walker wound to the most
\* specific of them, and that zone as the one to ask.  linked collects the
\* apexes whose DS records the authenticator of a query with DO set is given,
\* by a DS fetch or in the delegation response of the parent.
WalkStart ==
  \E i \in WalkIds :
    /\ walks[i].state = "start"
    /\ LET w     == walks[i]
           known == getZoneList(zones, now, w.qname)
           at    == windTo(w.qname, known[1].name)
       IN  walks' = [walks EXCEPT ![i] =
                       [w EXCEPT !.state = "loop", !.idx = at, !.z = known[1].name,
                                 !.linked = KnownLinks(known),
                                 !.how = [j \in 0..(Len(w.qname) + 1) |->
                                            IF j < at THEN "wound" ELSE "none"]]]
    /\ UNCHANGED <<counters, zones, rhist>>
    /\ UNCHANGED notResolverVars

\* One pass through the head of the loop: more(), the counter, the known-zone
\* shortcut, and otherwise the query sent to the current zone.
LoopHead ==
  \E i \in WalkIds :
    /\ walks[i].state = "loop"
    /\ LET w    == walks[i]
           c    == domainCurrent(w.qname, w.idx)
           n    == counters[w.ctr] + 1
           next == get(zones, now, c).result
       IN  IF ~domainMore(w.qname, w.idx)
             THEN /\ walks' = [walks EXCEPT ![i] = LoopExit(w)]
                  /\ UNCHANGED <<counters, rhist>>
           ELSE /\ counters' = [counters EXCEPT ![w.ctr] = n]
                /\ IF ExceedsMax(n)
                     THEN /\ walks' = [walks EXCEPT ![i] =
                                         Returned(w, WalkError("ErrMaxQueriesPerRequestReached"))]
                          /\ UNCHANGED rhist
                   ELSE IF next.present /\ ~domainLast(w.qname, w.idx)
                     THEN /\ walks' = [walks EXCEPT ![i] =
                                         [w EXCEPT !.z = next.name, !.idx = @ + 1,
                                                   !.how[w.idx] = "known"]]
                          /\ rhist' = [rhist EXCEPT !.passed = @ + 1]
                   ELSE /\ walks' = [walks EXCEPT ![i] =
                                       AwaitResponse([w EXCEPT !.inflight = @ \cup {w.idx}])]
                        /\ rhist' = [rhist EXCEPT !.passed = @ + 1, !.queries = @ + 1]
    /\ UNCHANGED zones
    /\ UNCHANGED notResolverVars

\* z.exchange returned an error or nothing.
ReceiveFailure ==
  \E i \in WalkIds :
    /\ walks[i].state = "query"
    /\ walks[i].inflight # {}
    /\ \E e \in {"ErrExchange", "ErrEmptyResponse"} :
         walks' = [walks EXCEPT ![i] = Returned(walks[i], WalkError(e))]
    /\ UNCHANGED <<counters, zones, rhist>>
    /\ UNCHANGED notResolverVars

\* a plausible slip: the loop left after the first zone it made
CloneFirstMissing(zs, z, missing, soas, k) ==
  IF k > Len(missing) THEN [zones |-> zs, z |-> z, panic |-> FALSE, made |-> <<>>]
  ELSE LET first == CHOOSE j \in k..(Len(missing) + 1) :
                      /\ j <= Len(missing) => missing[j] \in soas
                      /\ \A h \in k..(j - 1) : missing[h] \notin soas
       IN  IF first > Len(missing)
             THEN [zones |-> zs, z |-> z, panic |-> FALSE, made |-> <<>>]
           ELSE IF missing[first] = z \/ ~IsSubDomain(z, missing[first])
             THEN [zones |-> zs, z |-> z, panic |-> TRUE, made |-> <<>>]
           ELSE [zones |-> add(zs, clone(Lookup(zs, z), missing[first], z)),
                 z |-> missing[first], panic |-> FALSE,
                 made |-> <<clone(Lookup(zs, z), missing[first], z)>>]

RECURSIVE CloneMissing(_, _, _, _, _)
\* checkForMissingZones' loop over the gap: a name with a SOA becomes a zone
\* cloned from z, is added to the store, and is the z of the names after it.
\* z.clone panics when the name is z's own or not below it.  made lists the
\* zones added, in order.
CloneMissing(zs, z, missing, soas, k) ==
  IF k > Len(missing) THEN [zones |-> zs, z |-> z, panic |-> FALSE, made |-> <<>>]
  ELSE IF missing[k] \in soas
    THEN IF missing[k] = z \/ ~IsSubDomain(z, missing[k])
           THEN [zones |-> zs, z |-> z, panic |-> TRUE, made |-> <<>>]
           ELSE LET newZone == clone(Lookup(zs, z), missing[k], z)
                    r       == CloneMissing(add(zs, newZone), missing[k], missing, soas, k + 1)
                IN  [r EXCEPT !.made = <<newZone>> \o @]
  ELSE CloneMissing(zs, z, missing, soas, k + 1)

\* What one checkForMissingZones call was given and did: the zone passed, the
\* gap, the names of the gap that answered with a SOA, the zones it added.
NoCfmz == [z |-> Root, gap |-> <<>>, soas |-> {}, made |-> <<>>, panic |-> FALSE]

GapNames(w, owner) ==
  LET missing == domainGap(w.qname, w.idx, owner)
  IN  { missing[k] : k \in 1..Len(missing) }

\* checkForMissingZones for a response whose records are owned by owner; soas
\* are the names that answer a SOA query.
checkForMissingZones(zs, w, owner, soas) ==
  LET missing == domainGap(w.qname, w.idx, owner)
      r       == CloneMissing(zs, w.z, missing, soas, 1)
  IN  IF owner = Root \/ ~IsSubDomain(w.z, owner)
        THEN [zones |-> zs, panic |-> FALSE, walk |-> w, call |-> NoCfmz]
        ELSE [zones |-> r.zones, panic |-> r.panic,
              walk  |-> [w EXCEPT !.z = r.z, !.idx = @ + Len(missing),
                                  !.linked = @ \cup { r.made[k].name : k \in DOMAIN r.made },
                                  !.how = Mark(@, w.idx, w.idx + Len(missing), "cfmz")],
              call  |-> [z |-> w.z, gap |-> missing, soas |-> soas, made |-> r.made,
                         panic |-> r.panic]]

\* What the loop does with the zone processDelegation returned: z = newZone,
\* then d.next().  resolveLabel gave the delegation response to addResponse
\* before it called processDelegation.
Delegated(w, n) ==
  [w EXCEPT !.state = "loop", !.z = n, !.idx = @ + 1, !.child = 0, !.pending = Root,
            !.linked = @ \cup {n},
            !.how = IF w.idx \in DOMAIN @ THEN [@ EXCEPT ![w.idx] = "delegated"] ELSE @]

\* a plausible slip: the zone's own name taken for a name below it
SubDomainOrSame(z, nextZoneName) == IsSubDomain(z, nextZoneName)

\* processDelegation: the owner of the NS records must lie strictly below z
StrictSubDomain(z, nextZoneName) == nextZoneName # z /\ IsSubDomain(z, nextZoneName)

PoolModes(ws) ==
  {"primed", "empty"} \cup (IF FreeSlots(ws) # {} THEN {"needs_enhancing", "hostnames"} ELSE {})

\* z.exchange returned a delegation: checkForMissingZones, then
\* processDelegation and createZone for the owner of the NS records.  selfd
\* notes that the NS records were owned by the very zone that was asked.
ReceiveDelegation ==
  \E i \in WalkIds :
    /\ walks[i].state = "query"
    /\ walks[i].inflight # {}
    /\ \E owner \in ResolverNames, mode \in PoolModes(walks) :
       \E soas \in SUBSET GapNames(walks[i], owner) :
         LET w0  == [walks[i] EXCEPT !.inflight = {},
                                     !.selfd = @ \/ owner = walks[i].z]
             m   == checkForMissingZones(zones, w0, owner, soas)
             w   == m.walk
             j   == FirstFree(walks)
             nw  == NewWalk("enrich", i, NestedQName, SessionCounter(w.ctr, j))
         IN  /\ rhist' = [rhist EXCEPT !.cfmz = m.call]
             /\ IF m.panic
                  THEN /\ walks' = [walks EXCEPT ![i] = Returned(w, WalkError("panic"))]
                       /\ zones' = m.zones
                       /\ UNCHANGED counters
                ELSE IF ~StrictSubDomain(w.z, owner)
                  THEN /\ walks' = [walks EXCEPT ![i] =
                                      Returned(w, WalkError("ErrNextNameserversNotFound"))]
                       /\ zones' = m.zones
                       /\ UNCHANGED counters
                ELSE IF owner = w.z \/ ~IsSubDomain(w.z, owner) \/ mode = "empty"
                  THEN /\ walks' = [walks EXCEPT ![i] =
                                      Returned(w, WalkError("ErrFailedCreatingZoneAndPool"))]
                       /\ zones' = m.zones
                       /\ UNCHANGED counters
                ELSE IF mode = "primed"
                  THEN /\ walks' = [walks EXCEPT ![i] = Delegated(w, owner)]
                       /\ zones' = add(m.zones, Zone(owner, w.z, now + MaxTTL, FreshPool(m.zones)))
                       /\ UNCHANGED counters
                ELSE IF mode = "needs_enhancing"
                  THEN /\ walks' = [walks EXCEPT ![i] = Delegated(w, owner),
                                                  ![j] = [nw EXCEPT !.parent = 0]]
                       /\ zones' = add(m.zones, Zone(owner, w.z, now + MaxTTL, FreshPool(m.zones)))
                       /\ counters' = [counters EXCEPT ![j] = 0]
                ELSE /\ walks' = [walks EXCEPT ![i] = [w EXCEPT !.state = "enrich_wait",
                                                               !.child = j, !.pending = owner],
                                                ![j] = nw]
                     /\ zones' = m.zones
                     /\ counters' = [counters EXCEPT ![j] = 0]
    /\ UNCHANGED notResolverVars

GoodAnswer(r) == r.err = "nil" /\ r.answer

\* enrichPool's select, the done case: the hostname was resolved in time.
EnrichDone ==
  \E i \in WalkIds :
    /\ walks[i].state = "enrich_wait"
    /\ LET w == walks[i]
           j == w.child
       IN  /\ walks[j].state = "done"
           /\ GoodAnswer(walks[j].resp)
           /\ walks' = [walks EXCEPT ![i] = Delegated(w, w.pending), ![j] = FreeWalk]
           /\ zones' = add(zones, Zone(w.pending, w.z, now + MaxTTL, FreshPool(zones)))
    /\ UNCHANGED <<counters, rhist>>
    /\ UNCHANGED notResolverVars

\* enrichPool's select, the time.After case; the enriching task runs on.
EnrichTimeout ==
  \E i \in WalkIds :
    /\ walks[i].state = "enrich_wait"
    /\ LET w == walks[i]
           j == w.child
       IN  walks' = [walks EXCEPT ![i] = Returned(w, WalkError("ErrFailedEnrichingPool")),
                                  ![j] = [@ EXCEPT !.parent = 0]]
    /\ UNCHANGED <<counters, zones, rhist>>
    /\ UNCHANGED notResolverVars

\* An enriching task nobody waits for comes to its end.
EnrichTaskEnd ==
  \E j \in WalkIds :
    /\ walks[j].state = "done"
    /\ walks[j].kind = "enrich"
    /\ walks[j].parent = 0
    /\ walks' = [walks EXCEPT ![j] = FreeWalk]
    /\ UNCHANGED <<counters, zones, rhist>>
    /\ UNCHANGED notResolverVars

\* The owner of the records of an answer: the query name, or for a negative
\* answer the apex of the answering zone (its SOA).
AnswerOwner(w, kind) == IF kind = "negative" THEN w.z ELSE w.qname

\* z.exchange returned an answer (positive, CNAME or negative): the missing
\* zones, then finaliseResponse, which follows a CNAME with another exchange.
ReceiveAnswer ==
  \E i \in WalkIds :
    /\ walks[i].state = "query"
    /\ walks[i].inflight # {}
    /\ \E kind \in {"positive", "cname", "negative"}, e \in {"nil", "ErrFinalise"} :
       \E soas \in SUBSET GapNames(walks[i], AnswerOwner(walks[i], kind)) :
         LET w0 == [walks[i] EXCEPT !.inflight = {}]
             m  == checkForMissingZones(zones, w0, AnswerOwner(w0, kind), soas)
             w  == m.walk
             j  == FirstFree(walks)
         IN  /\ kind = "cname" => FreeSlots(walks) # {}
             /\ zones' = m.zones
             /\ rhist' = [rhist EXCEPT !.cfmz = m.call]
             /\ IF m.panic
                  THEN /\ walks' = [walks EXCEPT ![i] = Returned(w, WalkError("panic"))]
                       /\ UNCHANGED counters
                ELSE IF kind = "cname"
                  THEN /\ walks' = [walks EXCEPT
                                      ![i] = [w EXCEPT !.state = "cname_wait", !.child = j,
                                                       !.resp = WalkResponse(e, TRUE)],
                                      ![j] = NewWalk("cname", i, NestedQName,
                                                     SessionCounter(w.ctr, j))]
                       /\ counters' = [counters EXCEPT ![j] = 0]
                ELSE /\ walks' = [walks EXCEPT ![i] =
                                    Returned(w, WalkResponse(e, kind = "positive"))]
                     /\ UNCHANGED counters
    /\ UNCHANGED notResolverVars

\* cname: the exchange for the target has returned; its error is returned,
\* or finaliseResponse runs to its end.
CnameReturn ==
  \E i \in WalkIds :
    /\ walks[i].state = "cname_wait"
    /\ LET w == walks[i]
           j == w.child
           c == walks[j].resp
       IN  /\ walks[j].state = "done"
           /\ walks' = [walks EXCEPT
                          ![i] = IF c.err # "nil" THEN Returned(w, WalkError(c.err))
                                 ELSE Returned(w, w.resp),
                          ![j] = FreeWalk]
    /\ UNCHANGED <<counters, zones, rhist>>
    /\ UNCHANGED notResolverVars

ResolverNext ==
  \/ WalkStart
  \/ LoopHead
  \/ ReceiveFailure
  \/ ReceiveDelegation
  \/ EnrichDone
  \/ EnrichTimeout
  \/ EnrichTaskEnd
  \/ ReceiveAnswer
  \/ CnameReturn
  \/ Tick

\* The store a query can find: the root, and the zones c. and b.c. left by
\* earlier queries; c. absent, expired, or usable until the clock ticks (a
\* query that sees no tick finds it usable throughout), b.c. absent or usable.
ResolverStores ==
  { [n \in ResolverNames |->
       IF n = Root THEN Zone(Root, EmptyName, 0, 0)
       ELSE IF n = <<"c">> /\ c # 0 THEN Zone(n, Root, c, 1)
       ELSE IF n = <<"b", "c">> /\ b # 0 THEN Zone(n, <<"c">>, b, 2)
       ELSE NoZone] : c \in {0, 1, MaxTime - 1}, b \in {0, MaxTime} }

ResolverStart ==
  /\ zones \in ResolverStores
  /\ now = MaxTime - 1
  /\ lastCall = NoCall
  /\ walks = [i \in WalkIds |-> IF i = 1 THEN NewWalk("top", 0, TopQName, 1) ELSE FreeWalk]
  /\ counters = [i \in WalkIds |-> 0]
  /\ rhist = [passed |-> 0, queries |-> 0, cfmz |-> NoCfmz]

ResolverIdle ==
  /\ walks = [i \in WalkIds |-> FreeWalk]
  /\ counters = [i \in WalkIds |-> 0]
  /\ rhist = [passed |-> 0, queries |-> 0, cfmz |-> NoCfmz]

(***************************************************************************)
(* finaliseResponse and cname (src/unnamed/part_013, part_009): what a     *)
(* returned Response carries.  call is the exchange that returned last;    *)
(* an exchange whose answer holds a CNAME takes the response of the        *)
(* exchange for the target, which must have returned before it.            *)
(***************************************************************************)
MaxCnameDepth == 2

\* AuthenticationResult.Combine
Combine(r, r2) ==
  IF r = "Bogus" \/ r2 = "Bogus" THEN "Bogus"
  ELSE IF r = "Unknown" \/ r2 = "Unknown" THEN "Unknown"
  ELSE IF r = "Insecure" \/ r2 = "Insecure" THEN "Insecure"
  ELSE IF r = "Secure" /\ r2 = "Secure" THEN "Secure"
  ELSE "Bogus"

AuthStates == {"Unknown", "Insecure", "Secure", "Bogus"}

\* dns rcodes, in numeric order: NOERROR 0, SERVFAIL 2, NXDOMAIN 3
RcodeRank(rc) == CASE rc = "NOERROR" -> 0 [] rc = "SERVFAIL" -> 2 [] rc = "NXDOMAIN" -> 3

MaxRcode(a, b) == IF RcodeRank(a) >= RcodeRank(b) THEN a ELSE b

Rcodes == {"NOERROR", "SERVFAIL", "NXDOMAIN"}

SuppressBogusResponseSections == TRUE

\* A Response: Err, whether Msg is set, Auth, and of the message its AD bit,
\* its rcode and whether its answer section holds records.
NoResponse ==
  [err |-> "nil", msg |-> FALSE, auth |-> "Unknown", ad |-> FALSE,
   rcode |-> "NOERROR", answer |-> FALSE]

ResponseError(e) == [NoResponse EXCEPT !.err = e]

HasError(r) == r.err # "nil"

IsEmpty(r) == ~r.msg

\* What z.exchange hands to finaliseResponse: a message, no error, Auth unset.
Upstream(rc, ad, answer) ==
  [NoResponse EXCEPT !.msg = TRUE, !.rcode = rc, !.ad = ad, !.answer = answer]

\* auth.result(): the single recorded error with state 0, or the verdict of
\* the dnssec authenticator with the error it reports.
Verdicts ==
  [auth : AuthStates, err : {"nil"}] \cup
  [auth : {"Unknown", "Insecure", "Bogus"}, err : {"ErrAuth"}]

\* finaliseResponse's first step: with an authenticator, Auth and Err are
\* what auth.result() returns.
withVerdict(req, r, v) ==
  IF req.do THEN [r EXCEPT !.auth = v.auth, !.err = v.err] ELSE r

\* cname: the response c of the exchange for the target is merged into r.
cname(r, c) ==
  IF HasError(c) THEN [err |-> c.err, r |-> r]
  ELSE IF IsEmpty(c) THEN [err |-> "unable to follow cname", r |-> r]
  ELSE [err |-> "nil",
        r   |-> [r EXCEPT !.answer = @ \/ c.answer,
                          !.auth = Combine(@, c.auth),
                          !.rcode = MaxRcode(@, c.rcode)]]

UnsuccessfulRcode(r) ==
  IF r.rcode \in {"NOERROR", "NXDOMAIN"} THEN r
  ELSE [r EXCEPT !.err = "unsuccessful response code"]

finaliseFlagsKeepingAD(req, r0) ==
  LET r == UnsuccessfulRcode(r0)
  IN  IF req.do /\ ~req.cd /\ r.auth = "Bogus"
        THEN [r EXCEPT !.rcode = "SERVFAIL",
                       !.answer = IF SuppressBogusResponseSections THEN FALSE ELSE @]
        ELSE r

finaliseFlagsKeepingRcode(req, r0) ==
  LET r == UnsuccessfulRcode(r0)
  IN  IF req.do /\ ~req.cd THEN [r EXCEPT !.ad = (r.auth = "Secure")] ELSE r

\* finaliseResponse from the rcode test on: the error for an unsuccessful
\* rcode and, with an authenticator and CD clear, the AD bit and SERVFAIL.
finaliseFlags(req, r0) ==
  LET r == UnsuccessfulRcode(r0)
  IN  IF req.do /\ ~req.cd
        THEN IF r.auth = "Bogus"
               THEN [r EXCEPT !.ad = FALSE, !.rcode = "SERVFAIL",
                              !.answer = IF SuppressBogusResponseSections THEN FALSE ELSE @]
               ELSE [r EXCEPT !.ad = (r.auth = "Secure")]
        ELSE r

Request(do, cd) == [do |-> do, cd |-> cd]

NoCallYet == [returned |-> FALSE, req |-> Request(FALSE, FALSE), depth |-> 0,
              resp |-> NoResponse]

Call(req, depth, resp) == [returned |-> TRUE, req |-> req, depth |-> depth, resp |-> resp]

FinaliseStart == call = NoCallYet

FinaliseIdle == call = NoCallYet

\* An exchange that returns before finaliseResponse, with an error.
ExchangeFails ==
  \E do \in BOOLEAN, cd \in BOOLEAN, e \in {"ErrExchange", "ErrMaxQueriesPerRequestReached"} :
    /\ call' = Call(Request(do, cd), 0, ResponseError(e))
    /\ UNCHANGED notFinaliseVars

\* An exchange whose answer needs no CNAME followed.
ExchangeAnswers ==
  \E do \in BOOLEAN, cd \in BOOLEAN, rc \in Rcodes, ad \in BOOLEAN, answer \in BOOLEAN,
     v \in Verdicts :
    /\ call' = Call(Request(do, cd), 0,
                    finaliseFlags(Request(do, cd),
                                  withVerdict(Request(do, cd), Upstream(rc, ad, answer), v)))
    /\ UNCHANGED notFinaliseVars

\* An exchange whose answer holds a CNAME: cname asked for the target with the
\* same DO and with CD clear, and that exchange is the one that returned last.
ExchangeFollowsCname ==
  /\ call.returned
  /\ ~call.req.cd
  /\ call.depth < MaxCnameDepth
  /\ \E cd \in BOOLEAN, rc \in Rcodes, ad \in BOOLEAN, v \in Verdicts :
       LET req == Request(call.req.do, cd)
           m   == cname(withVerdict(req, Upstream(rc, ad, TRUE), v), call.resp)
       IN  call' = Call(req, call.depth + 1,
                        IF m.err # "nil" THEN ResponseError(m.err)
                                         ELSE finaliseFlags(req, m.r))
  /\ UNCHANGED notFinaliseVars

FinaliseNext ==
  \/ ExchangeFails
  \/ ExchangeAnswers
  \/ ExchangeFollowsCname

(***************************************************************************)
(* The IPv6 probe (src/ipv6.go).  ipv6Check is a sync.Once: new, running    *)
(* its function, or done.  Every IPv6Available call that finds no answer    *)
(* starts a goroutine that calls ipv6Check.Do.                              *)
(***************************************************************************)
Tasks == {"t1", "t2"}

ProbeAddresses == <<"2001:7fd::1", "2001:500:a8::e", "2001:503:ba3e::2:30">>

NewIPv6 ==
  [ipv6Check |-> "new", ipv6Answered |-> FALSE, ipv6Available |-> FALSE,
   address |-> 0, goroutines |-> 0, started |-> 0, recorded |-> FALSE, calls |-> 0,
   pc |-> [c \in Tasks |-> "idle"], ret |-> [c \in Tasks |-> "none"],
   during |-> [c \in Tasks |-> FALSE]]

\* a plausible slip: the function run again by every Do that finds none running
onceRunsAgain(once) == once # "running"

\* sync.Once.Do runs its function the first time only
onceRuns(once) == once = "new"

\* IPv6Available up to the second test: the answer when there is one
IPv6AvailableAnswered ==
  \E c \in Tasks :
    /\ v6.pc[c] = "idle"
    /\ v6.calls < MaxExchanges
    /\ v6' = IF v6.ipv6Answered
               THEN [v6 EXCEPT !.calls = @ + 1,
                               !.ret[c] = IF v6.ipv6Available THEN "true" ELSE "false",
                               !.during[c] = FALSE]
               ELSE [v6 EXCEPT !.calls = @ + 1, !.pc[c] = "unanswered", !.ret[c] = "none"]
    /\ UNCHANGED notV6Vars

\* the rest of IPv6Available: true when the probe has already stored it,
\* else a goroutine for ipv6Check.Do and false
IPv6AvailableUnanswered ==
  \E c \in Tasks :
    /\ v6.pc[c] = "unanswered"
    /\ v6' = IF v6.ipv6Available
               THEN [v6 EXCEPT !.pc[c] = "idle", !.ret[c] = "true",
                               !.during[c] = v6.ipv6Check = "running"]
               ELSE [v6 EXCEPT !.pc[c] = "idle", !.ret[c] = "false",
                               !.during[c] = v6.ipv6Check = "running",
                               !.goroutines = @ + 1]
    /\ UNCHANGED notV6Vars

\* ipv6Check.Do in one of the goroutines: the first starts
\* UpdateIPv6Availability, one that finds it running waits, one that finds
\* it done returns
OnceDo ==
  /\ v6.goroutines > 0
  /\ v6.ipv6Check # "running" \/ onceRuns(v6.ipv6Check)
  /\ v6' = IF onceRuns(v6.ipv6Check)
             THEN [v6 EXCEPT !.ipv6Check = "running", !.started = @ + 1, !.address = 1]
             ELSE [v6 EXCEPT !.goroutines = @ - 1]
  /\ UNCHANGED notV6Vars

\* UpdateIPv6Availability: DialTimeout to the next address and the Store of
\* its outcome
ProbeDial ==
  \E ok \in BOOLEAN :
    /\ v6.ipv6Check = "running"
    /\ v6.address \in 1..Len(ProbeAddresses)
    /\ v6' = [v6 EXCEPT !.ipv6Available = ok,
                        !.recorded = @ \/ ok,
                        !.address = IF ok THEN Len(ProbeAddresses) + 1 ELSE @ + 1]
    /\ UNCHANGED notV6Vars

\* the return of UpdateIPv6Availability: the deferred Store of ipv6Answered,
\* and the Once is done
ProbeReturn ==
  /\ v6.ipv6Check = "running"
  /\ v6.address > Len(ProbeAddresses)
  /\ v6' = [v6 EXCEPT !.ipv6Answered = TRUE, !.ipv6Check = "done",
                      !.goroutines = @ - 1]
  /\ UNCHANGED notV6Vars

IPv6Next ==
  \/ IPv6AvailableAnswered
  \/ IPv6AvailableUnanswered
  \/ OnceDo
  \/ ProbeDial
  \/ ProbeReturn

V6Idle == v6 = NewIPv6

(***************************************************************************)
(* A zone's DNSKEY cache (src/zone.go).  dnskeyRecords is nil or one of the *)
(* rrsets the zone has published; dnskeyExpiry 0 is the zero time.  Tasks    *)
(* call dnskeys together and wait for dnskeyLock; the one that holds it     *)
(* runs the whole of dnskeys.                                               *)
(***************************************************************************)
NegativeCacheSeconds == 60

KeySets == {"k1", "k2"}

NoDnskeysCall ==
  [called |-> FALSE, at |-> 0, queried |-> FALSE, keys |-> "nil", err |-> "nil"]

\* the tasks that called dnskeys together: whether the cache was empty or
\* expired as they called, the count of z.exchange calls then, and the
\* expiry that the first fetch of an rrset among them stored
NoBatch == [members |-> {}, stale |-> FALSE, calls0 |-> 0, firstExpiry |-> 0]

NewZoneKeys ==
  [dnskeyRecords |-> "nil", dnskeyExpiry |-> 0, calls |-> 0, emptyAt |-> 0,
   last |-> NoDnskeysCall, waiting |-> {}, rets |-> [c \in Tasks |-> NoDnskeysCall],
   batch |-> NoBatch]

DnskeysReturn(t, queried, keys, err) ==
  [called |-> TRUE, at |-> t, queried |-> queried, keys |-> keys, err |-> err]

\* a plausible slip: the cache never consulted
dnskeysCachedNever(z, t) == FALSE

\* the cache answers while the expiry is set and not before now
dnskeysCached(z, t) == z.dnskeyExpiry # 0 /\ ~(z.dnskeyExpiry < t)

\* dnskeys(ctx) at time t; response is what z.exchange returns for the DNSKEY
\* query, should one be sent: an error, no message, a message without
\* answers, or the rrset keys with TTL ttl.  emptyAt is the time of the
\* latest answer without records; calls counts the calls of z.exchange.
dnskeys(z, t, response, keys, ttl) ==
  IF dnskeysCached(z, t)
    THEN [z EXCEPT !.last = DnskeysReturn(t, FALSE, z.dnskeyRecords, "nil")]
  ELSE IF response \in {"error", "empty"}
    THEN [z EXCEPT !.last = DnskeysReturn(t, TRUE, "nil", "ErrFailedToGetDNSKEYs"),
                   !.calls = @ + 1]
  ELSE IF response = "noanswer"
    THEN [z EXCEPT !.dnskeyExpiry = t + NegativeCacheSeconds,
                   !.last = DnskeysReturn(t, TRUE, "nil", "nil"),
                   !.calls = @ + 1,
                   !.emptyAt = t]
  ELSE [z EXCEPT !.dnskeyRecords = keys,
                 !.dnskeyExpiry = t + ttl,
                 !.last = DnskeysReturn(t, TRUE, keys, "nil"),
                 !.calls = @ + 1]

\* `go z.dnskeys(ctx)` by some tasks at once: they queue on dnskeyLock
DnskeysCall ==
  \E S \in SUBSET Tasks :
    /\ S # {}
    /\ zk.waiting = {}
    /\ zk' = [zk EXCEPT !.waiting = S,
                        !.rets = [c \in Tasks |-> NoDnskeysCall],
                        !.batch = [members |-> S, stale |-> ~dnskeysCached(zk, now),
                                   calls0 |-> zk.calls, firstExpiry |-> 0]]
    /\ UNCHANGED now
    /\ UNCHANGED notDnskeysVars

\* the task that gets dnskeyLock runs dnskeys to its return
Dnskeys ==
  \E c \in zk.waiting, response \in {"error", "empty", "noanswer", "keys"},
     keys \in KeySets, ttl \in 0..MaxTTL :
    /\ dnskeysCached(zk, now) \/ zk.calls < MaxExchanges
    /\ LET z1 == dnskeys(zk, now, response, keys, ttl)
       IN  zk' = [z1 EXCEPT
                    !.waiting = @ \ {c},
                    !.rets[c] = z1.last,
                    !.batch.firstExpiry =
                       IF @ = 0 /\ z1.last.queried /\ z1.last.keys # "nil"
                       THEN z1.dnskeyExpiry ELSE @]
    /\ UNCHANGED now
    /\ UNCHANGED notDnskeysVars

DnskeysTick ==
  /\ now < MaxTime
  /\ now' = now + 1
  /\ UNCHANGED zk
  /\ UNCHANGED notDnskeysVars

DnskeysNext ==
  \/ DnskeysCall
  \/ Dnskeys
  \/ DnskeysTick

DnskeysIdle == zk = NewZoneKeys

(***************************************************************************)
(* One nameserver (src/unnamed/part_010).  exchange tries the protocols in  *)
(* order; each attempt starts a goroutine that updates the metrics.         *)
(***************************************************************************)
Outcomes == {"ok", "truncated", "error"}

NoExchange == [outcome |-> "none", err |-> "nil"]

NewNameserver ==
  [pc |-> "idle", msgNil |-> FALSE, attempts |-> <<>>, result |-> NoExchange,
   calls |-> 0, pendingUdp |-> 0, pendingTcp |-> 0,
   numberOfRequests |-> 0, numberOfTcpRequests |-> 0]

\* a plausible slip: only an error sends the message again
TryNextOnErrorOnly(outcome) == outcome = "error"

\* the loop goes on to the next protocol after an error (continue) and
\* after a truncated response (no return)
TryNext(outcome) == outcome = "error" \/ outcome = "truncated"

\* exchange up to the loop: a nil message is answered at once
NsExchange ==
  \E msgNil \in BOOLEAN :
    /\ srv.pc \in {"idle", "done"}
    /\ srv.calls < MaxExchanges
    /\ srv' = IF msgNil
               THEN [srv EXCEPT !.pc = "done", !.msgNil = TRUE, !.attempts = <<>>,
                               !.calls = @ + 1,
                               !.result = [outcome |-> "none",
                                           err |-> "ErrNilMessageSentToExchange"]]
               ELSE [srv EXCEPT !.pc = "udp", !.msgNil = FALSE, !.attempts = <<>>,
                               !.calls = @ + 1, !.result = NoExchange]
    /\ UNCHANGED notNameserverVars

\* one turn of the loop: ExchangeContext over the protocol, the metrics
\* goroutine started, then continue, return or fall out of the loop
NsAttempt ==
  \E outcome \in Outcomes :
    /\ srv.pc \in {"udp", "tcp"}
    /\ srv' = [srv EXCEPT
                !.attempts = Append(@, [protocol |-> srv.pc, outcome |-> outcome]),
                !.result = [outcome |-> outcome,
                            err |-> IF outcome = "error" THEN "err" ELSE "nil"],
                !.pendingUdp = IF srv.pc = "udp" THEN @ + 1 ELSE @,
                !.pendingTcp = IF srv.pc = "tcp" THEN @ + 1 ELSE @,
                !.pc = IF srv.pc = "udp" /\ TryNext(outcome) THEN "tcp" ELSE "done"]
    /\ UNCHANGED notNameserverVars

\* updateMetrics, run by one of the goroutines started
NsUpdateMetrics ==
  \E protocol \in {"udp", "tcp"} :
    /\ IF protocol = "udp" THEN srv.pendingUdp > 0 ELSE srv.pendingTcp > 0
    /\ srv' = [srv EXCEPT
                !.pendingUdp = IF protocol = "udp" THEN @ - 1 ELSE @,
                !.pendingTcp = IF protocol = "tcp" THEN @ - 1 ELSE @,
                !.numberOfRequests = @ + 1,
                !.numberOfTcpRequests = IF protocol = "tcp" THEN @ + 1 ELSE @]
    /\ UNCHANGED notNameserverVars

NameserverNext ==
  \/ NsExchange
  \/ NsAttempt
  \/ NsUpdateMetrics

NameserverIdle == srv = NewNameserver

(***************************************************************************)
(* The nameserver pool (src/unnamed/part_011, src/pool_exchange.go).  The   *)
(* servers of a family are told apart by their index in the family's       *)
(* slice; ipv4 and ipv6 are the lengths of the slices, which are also the   *)
(* values of ipv4Count and ipv6Count.                                       *)
(***************************************************************************)
Hostnames == {"h1", "h2"}

\* the cap on every TTL; the model draws no TTL above MaxTTL
MaxAllowedTTL == MaxTTL + 1

Pool(hosts, a, aaaa, e) ==
  [hosts |-> hosts, ipv4 |-> a, ipv6 |-> aaaa, ipv4Next |-> 0, ipv6Next |-> 0,
   expires |-> e]

\* buildRootServerPool: addresses of both families, no hostnames, no expiry
RootPool == Pool({}, MaxServers, MaxServers, 0)

\* A and AAAA records: owner name and TTL
RR == [name : Hostnames, type : {"A", "AAAA"}, ttl : 0..MaxTTL]

RECURSIVE SeqsUpTo(_, _)
SeqsUpTo(S, k) ==
  IF k = 0 THEN {<<>>}
  ELSE SeqsUpTo(S, k - 1) \cup
       { Append(q, x) : q \in { r \in SeqsUpTo(S, k - 1) : Len(r) = k - 1 }, x \in S }

\* answer sections: up to one record for each hostname
RecordSeqs == SeqsUpTo(RR, Cardinality(Hostnames))

MinOf(S) == CHOOSE k \in S : \A j \in S : k <= j

\* the records among records that findAddressesForHostname finds for a
\* hostname of hosts
Found(hosts, records) == { k \in DOMAIN records : records[k].name \in hosts }

\* enrich's ttl: the least TTL found for a hostname still without addresses,
\* MaxAllowedTTL when nothing was found
enrichTTL(hosts, records) ==
  MinOf({MaxAllowedTTL} \cup { records[k].ttl : k \in Found(hosts, records) })

\* nameserverPool.enrich(records) at time t
enrich(pl, t, records) ==
  IF Len(records) = 0 THEN pl
  ELSE LET found == Found(pl.hosts, records)
           ttl   == enrichTTL(pl.hosts, records)
       IN  [pl EXCEPT
              !.ipv4 = @ + Cardinality({ k \in found : records[k].type = "A" }),
              !.ipv6 = @ + Cardinality({ k \in found : records[k].type = "AAAA" }),
              !.hosts = @ \ { records[k].name : k \in found },
              !.expires = enrichExpires(@, t, ttl)]

NoEnrich == [called |-> FALSE, at |-> 0, expires |-> 0, added |-> {}]

PoolIdle ==
  /\ pool = RootPool
  /\ pe = NoEnrich

\* pools as newNameserverPool leaves them at time t: the hostnames without an
\* address, the addresses found in the glue, the expiry after the least TTL
NewPools(t) ==
  { Pool(hosts, a, aaaa, t + ttl) :
      hosts \in SUBSET Hostnames, a \in 0..1, aaaa \in 0..1, ttl \in 0..MaxTTL }

PoolEnrichStart ==
  /\ pool \in NewPools(now) \cup {RootPool}
  /\ pe = NoEnrich

\* enrich(records), called by the enriching task with the A and AAAA records
\* it resolved
PeEnrich ==
  \E records \in RecordSeqs :
    /\ pool' = enrich(pool, now, records)
    /\ pe' = [called |-> TRUE, at |-> now, expires |-> pool.expires,
              added |-> { records[k].ttl : k \in Found(pool.hosts, records) }]
    /\ UNCHANGED now
    /\ UNCHANGED notPoolEnrichVars

PeTick ==
  /\ now < MaxTime
  /\ now' = now + 1
  /\ UNCHANGED <<pool, pe>>
  /\ UNCHANGED notPoolEnrichVars

PoolEnrichNext ==
  \/ PeEnrich
  \/ PeTick

(***************************************************************************)
(* nameserverPool.exchange.  Each caller runs exchange again and again;    *)
(* the Load and the Store of getIPv4 / getIPv6 are separate steps, so that  *)
(* callers interleave between them.  An attempt is one `if server := ...`   *)
(* of exchange: the family asked, the server got (none when the getter      *)
(* returned nil) and whether the response was empty, errored or truncated.  *)
(***************************************************************************)
Callers == {"c1", "c2"}

NoServer == 0 - 1

NoCaller ==
  [pc |-> "idle", hasIPv4 |-> FALSE, hasIPv6 |-> FALSE, fam |-> "none", n |-> 0,
   attempts |-> <<>>, retryCount |-> 0, alone |-> TRUE, err |-> "nil"]

Attempt(fam, server, bad) == [fam |-> fam, server |-> server, bad |-> bad]

Count(pl, fam) == IF fam = "ipv4" THEN pl.ipv4 ELSE pl.ipv6

NextOf(pl, fam) == IF fam = "ipv4" THEN pl.ipv4Next ELSE pl.ipv6Next

\* the first attempt: IPv6 when the pool has it and it is available
FirstFamily(c, available) == IF c.hasIPv6 /\ available THEN "ipv6" ELSE "ipv4"

\* a plausible slip: the retry sent to the family of the first attempt
RetryFirstFamily(c) == c.fam

\* the retry: IPv4 when the pool has it
RetryFamily(c) == IF c.hasIPv4 THEN "ipv4" ELSE "ipv6"

\* another caller has taken a step of its call while these were in theirs
Disturbed(cs, self) ==
  [k \in Callers |->
     IF k # self /\ cs[k].pc \notin {"idle", "done"} THEN [cs[k] EXCEPT !.alone = FALSE]
     ELSE cs[k]]

InCall(cs, self) == \E k \in Callers : k # self /\ cs[k].pc \notin {"idle", "done"}

\* exchange up to the first attempt: hasIPv4 and hasIPv6 are read once
PxBegin ==
  \E c \in Callers :
    /\ px[c].pc \in {"idle", "done"}
    /\ LET h4 == pool.ipv4 > 0
           h6 == pool.ipv6 > 0
       IN  px' = [Disturbed(px, c) EXCEPT ![c] =
                    IF ~h4 /\ ~h6
                      THEN [NoCaller EXCEPT !.pc = "done", !.alone = ~InCall(px, c),
                                            !.err = "ErrNoPoolConfiguredForZone"]
                      ELSE [NoCaller EXCEPT !.pc = "first", !.hasIPv4 = h4, !.hasIPv6 = h6,
                                            !.alone = ~InCall(px, c)]]
    /\ UNCHANGED pool
    /\ UNCHANGED notPoolExchangeVars

\* getIPv4 / getIPv6 up to the Store: the family's test, Load() % count
PxLoad ==
  \E c \in Callers, available \in BOOLEAN :
    /\ px[c].pc \in {"first", "retry"}
    /\ LET fam == IF px[c].pc = "first" THEN FirstFamily(px[c], available)
                  ELSE RetryFamily(px[c])
           cnt == Count(pool, fam)
       IN  px' = [Disturbed(px, c) EXCEPT ![c] =
                    IF cnt = 0
                      THEN [px[c] EXCEPT
                              !.attempts = Append(@, Attempt(fam, NoServer, TRUE)),
                              !.fam = fam,
                              !.pc = IF px[c].pc = "first" THEN "retry" ELSE "done"]
                      ELSE [px[c] EXCEPT
                              !.fam = fam, !.n = NextOf(pool, fam) % cnt,
                              !.retryCount = IF px[c].pc = "retry" THEN cnt ELSE @,
                              !.pc = IF px[c].pc = "first" THEN "firstStore"
                                     ELSE "retryStore"]]
    /\ UNCHANGED pool
    /\ UNCHANGED notPoolExchangeVars

\* the Store, the server read from the slice, and server.exchange: the
\* response is fine, or it is empty, errored or truncated
PxStore ==
  \E c \in Callers, bad \in BOOLEAN :
    /\ px[c].pc \in {"firstStore", "retryStore"}
    /\ pool' = IF px[c].fam = "ipv4" THEN [pool EXCEPT !.ipv4Next = px[c].n + 1]
               ELSE [pool EXCEPT !.ipv6Next = px[c].n + 1]
    /\ px' = [Disturbed(px, c) EXCEPT ![c] =
                [px[c] EXCEPT
                   !.attempts = Append(@, Attempt(px[c].fam, px[c].n, bad)),
                   !.pc = IF px[c].pc = "firstStore" /\ bad THEN "retry" ELSE "done"]]
    /\ UNCHANGED notPoolExchangeVars

\* the enriching task adds the addresses it resolved while calls are under way
PxEnrich ==
  \E records \in SeqsUpTo(RR, 1) :
    /\ pool.hosts # {}
    /\ pool' = enrich(pool, now, records)
    /\ pool' # pool
    /\ UNCHANGED px
    /\ UNCHANGED notPoolExchangeVars

PoolExchangeNext ==
  \/ PxBegin
  \/ PxLoad
  \/ PxStore
  \/ PxEnrich

\* pools as newNameserverPool and buildRootServerPool leave them
PoolExchangeStart ==
  /\ pool \in { Pool({}, a, aaaa, 0) : a \in 0..MaxServers, aaaa \in 0..MaxServers }
              \cup { Pool({"h1"}, a, aaaa, now + MaxTTL) : a \in 0..1, aaaa \in 0..1 }
  /\ px = [c \in Callers |-> NoCaller]
  /\ pe = NoEnrich

PoolExchangeIdle == px = [c \in Callers |-> NoCaller]

(***************************************************************************)
(* The domain walker (src/unnamed/part_025) on its own: a walker is made    *)
(* for any name of up to MaxLabels labels, walked with                      *)
(* `for ; d.more(); d.next()`, and asked for the gap to any name at any     *)
(* point of the walk.                                                       *)
(***************************************************************************)
Labels == {"a", "b"}

RECURSIVE NamesOfLength(_)
NamesOfLength(k) ==
  IF k = 0 THEN {Root}
  ELSE { <<l>> \o n : l \in Labels, n \in NamesOfLength(k - 1) }

DomainNames == UNION { NamesOfLength(k) : k \in 0..MaxLabels }

NoGap == [called |-> FALSE, target |-> Root, idx |-> 0, out |-> <<>>]

\* newDomain(d): the name and currentIdx 0
newDomain(d) == [name |-> d, idx |-> 0, yields |-> <<>>, gap |-> NoGap]

DomainStart == dom \in { newDomain(n) : n \in DomainNames }

DomainIdle == dom = newDomain(Root)

\* one turn of `for ; d.more(); d.next()`: the body sees d.current()
DomainYield ==
  /\ domainMore(dom.name, dom.idx)
  /\ dom' = [dom EXCEPT !.yields = Append(@, domainCurrent(dom.name, dom.idx)),
                        !.idx = @ + 1]
  /\ UNCHANGED notDomainVars

\* d.gap(target), at the point the walk has reached
DomainGap ==
  \E target \in DomainNames :
    /\ dom' = [dom EXCEPT !.gap = [called |-> TRUE, target |-> target, idx |-> dom.idx,
                                   out |-> domainGap(dom.name, dom.idx, target)]]
    /\ UNCHANGED notDomainVars

DomainNext ==
  \/ DomainYield
  \/ DomainGap

(***************************************************************************)
(* The messages of one Resolver.Exchange call.  A *dns.Msg is a reference: *)
(* the messages are kept on a heap, msgs, and the Question slice of each   *)
(* is an object of its own, in questions.                                  *)
(***************************************************************************)
Qtypes == {"A", "CNAME"}

\* A dns.Msg: the header bits and rcode, whether the answer section holds
\* records, and the reference of its Question slice.
Message(rd, do, cd, avail, ad, rcode, answer, question) ==
  [rd |-> rd, do |-> do, cd |-> cd, ra |-> avail, ad |-> ad, rcode |-> rcode,
   answer |-> answer, question |-> question]

NoMessage == 0

\* The heap before the call: the caller's message is object 1 and the message
\* the cache holds for the question is object 2.
NewHeap(rd, do, cd, qtype) ==
  [msgs      |-> << Message(rd, do, cd, FALSE, FALSE, "NOERROR", FALSE, 1),
                    Message(FALSE, FALSE, FALSE, FALSE, FALSE, "NOERROR", TRUE, 2) >>,
   questions |-> << qtype, qtype >>,
   qmsg      |-> 1,
   cached    |-> 2,
   given     |-> [msg |-> Message(rd, do, cd, FALSE, FALSE, "NOERROR", FALSE, 1),
                  question |-> qtype],
   work      |-> NoMessage,
   response  |-> NoMessage,
   written   |-> {},
   counter   |-> 0,
   pc        |-> "called",
   err       |-> "nil"]

MessageStart == mh \in { NewHeap(rd, do, cd, qtype) :
                           rd \in BOOLEAN, do \in BOOLEAN, cd \in BOOLEAN, qtype \in Qtypes }

MessageIdle == mh = [NewHeap(FALSE, FALSE, FALSE, "A") EXCEPT !.pc = "idle"]

\* dns.Msg.Copy: a new message with the same header and a new Question slice
\* with the same elements; the copy is the last object of the heap.
Copy(hp, r) ==
  [hp EXCEPT !.questions = Append(@, hp.questions[hp.msgs[r].question]),
             !.msgs = Append(@, [hp.msgs[r] EXCEPT !.question = Len(hp.questions) + 1])]

\* the public Exchange handing the caller's own message to exchange
ExchangeWithoutCopy(hp) ==
  IF ~hp.msgs[hp.qmsg].rd
    THEN [hp EXCEPT !.pc = "returned", !.err = "ErrNotRecursionDesired"]
    ELSE [hp EXCEPT !.work = hp.qmsg, !.pc = "resolving"]

\* Resolver.Exchange: refuses a message without RD, and otherwise calls
\* exchange with qmsg.Copy().
Exchange(hp) ==
  IF ~hp.msgs[hp.qmsg].rd
    THEN [hp EXCEPT !.pc = "returned", !.err = "ErrNotRecursionDesired"]
    ELSE LET c == Copy(hp, hp.qmsg)
         IN  [c EXCEPT !.work = Len(c.msgs), !.pc = "resolving"]

MhExchange ==
  /\ mh.pc = "called"
  /\ mh' = Exchange(mh)
  /\ UNCHANGED notMessageVars

\* The message a nameserver answers with: a new object echoing the question.
FromServer(hp, rc, ad, answer) ==
  [hp EXCEPT !.questions = Append(@, hp.questions[hp.msgs[hp.work].question]),
             !.msgs = Append(@, Message(FALSE, hp.msgs[hp.work].do, FALSE, FALSE, ad, rc,
                                        answer, Len(hp.questions) + 1))]

\* resolveLabel's `response.Msg.RecursionAvailable = true` on the last object.
markRecursionAvailable(hp) ==
  [hp EXCEPT !.msgs[Len(hp.msgs)].ra = TRUE,
             !.response = Len(hp.msgs),
             !.written = @ \cup {Len(hp.msgs)}]

\* One iteration of exchange's loop that reaches resolveLabel: the session
\* counter is checked, z.exchange(ctx, qmsg) answers from the cache (a copy of
\* the cached message), from a server, or with an error; a response that is
\* not empty gets RecursionAvailable set; a delegation sends the loop round
\* again and anything else goes on to finaliseResponse.
MhResolveLabel ==
  /\ mh.pc = "resolving"
  /\ \/ /\ mh.counter + 1 > MaxQueriesPerRequest
        /\ mh' = [mh EXCEPT !.counter = @ + 1, !.pc = "returned",
                            !.err = "ErrMaxQueriesPerRequestReached"]
     \/ /\ mh.counter + 1 <= MaxQueriesPerRequest
        /\ \/ mh' = [mh EXCEPT !.counter = @ + 1, !.pc = "returned", !.err = "ErrExchange"]
           \/ mh' = [markRecursionAvailable(Copy(mh, mh.cached))
                       EXCEPT !.counter = @ + 1, !.pc = "responded"]
           \/ mh' = [markRecursionAvailable(FromServer(mh, "NOERROR", FALSE, FALSE))
                       EXCEPT !.counter = @ + 1]
           \/ \E rc \in Rcodes, ad \in BOOLEAN, answer \in BOOLEAN :
                mh' = [markRecursionAvailable(FromServer(mh, rc, ad, answer))
                         EXCEPT !.counter = @ + 1, !.pc = "responded"]
  /\ UNCHANGED notMessageVars

\* finaliseResponse on the response of resolveLabel: what it reads of qmsg is
\* its DO and CD bits, and what it writes goes to response.Msg.
MhFinaliseResponse ==
  /\ mh.pc = "responded"
  /\ \E v \in Verdicts :
       LET q   == mh.msgs[mh.work]
           req == Request(q.do, q.cd)
           r0  == mh.msgs[mh.response]
           r   == finaliseFlags(req, withVerdict(req, Upstream(r0.rcode, r0.ad, r0.answer), v))
       IN  mh' = [mh EXCEPT !.msgs[mh.response].ad = r.ad,
                            !.msgs[mh.response].rcode = r.rcode,
                            !.msgs[mh.response].answer = r.answer,
                            !.written = @ \cup {mh.response},
                            !.err = r.err,
                            !.pc = "returned"]
  /\ UNCHANGED notMessageVars

MessageNext ==
  \/ MhExchange
  \/ MhResolveLabel
  \/ MhFinaliseResponse

(***************************************************************************)
(* One Resolver.Exchange call with everything it starts (part_013,         *)
(* part_009, part_004).  The calls under way are kept as stacks of frames, *)
(* the running call last.  cname calls exchange for a target on the stack  *)
(* of its caller.  enrichPool starts a goroutine that calls exchange for   *)
(* one hostname and type after another, and waits at its select for done   *)
(* or for three seconds: until then the frames of the goroutine lie on top *)
(* of the enrichPool that started it, and from then on they are a stack of *)
(* their own.  stacks is the bag of the stacks that can still run, and     *)
(* holds Leaked once if a goroutine waits at a send nobody will receive.    *)
(* Every exchange takes its counter from the ctx it is passed, so all of    *)
(* them count on the one counter of the call.                               *)
(***************************************************************************)
LazyEnrichment == FALSE

\* how many labels an exchange still has to walk once wound to the known
\* zones: of the name asked for, and of a CNAME target or a hostname
LabelsLeft == {0, 1, 2}

NestedLabelsLeft == {0, 1}

\* how many CNAME records of an answer cname follows, and how many hostname
\* and type pairs the goroutine of enrichPool asks for
CnameTargets == {1, 2}

EnrichQueries == {1}

Frame(kind, st, left, more, doneCalled, top) ==
  [kind |-> kind, st |-> st, left |-> left, more |-> more, doneCalled |-> doneCalled,
   top |-> top]

\* resolver.exchange(ctx, qmsg), about to enter its loop
ExchangeFrame(left) == Frame("exchange", "loop", left, 0, FALSE, FALSE)

\* the goroutine of enrichPool, with n exchanges to make
EnrichFrame(n) == Frame("enrich", "next", 0, n, FALSE, FALSE)

\* enrichPool at its select, run by createZone's `go func`
SelectFrame == Frame("select", "enrichwait", 0, 0, FALSE, FALSE)

NewSession(left) ==
  [stacks   |-> SetToBag({ <<[ExchangeFrame(left) EXCEPT !.top = TRUE]>> }),
   counter  |-> 0,
   queries  |-> 0,
   returned |-> FALSE,
   result   |-> "none"]

SessionStart == ses \in { NewSession(left) : left \in LabelsLeft }

SessionIdle == ses = [NewSession(0) EXCEPT !.stacks = EmptyBag]

Top(s) == s[Len(s)]

SetTop(s, f) == [s EXCEPT ![Len(s)] = f]

Running(s, kind, st) == Top(s).kind = kind /\ Top(s).st = st

\* The goroutine of enrichPool at `done <- true` with no enrichPool below it:
\* the select it would hand done to has timed out, and it waits for ever.
Stuck(s) == Len(s) = 1 /\ Top(s).kind = "enrich" /\ Top(s).st = "sending"

\* what is left of every goroutine that is stuck
Leaked == <<Frame("enrich", "leaked", 0, 0, FALSE, FALSE)>>

RECURSIVE BagOf(_)
\* the bag of the stacks in the sequence ss that can still run
BagOf(ss) ==
  IF ss = <<>> THEN EmptyBag
  ELSE IF Head(ss) = <<>> \/ Stuck(Head(ss)) THEN BagOf(Tail(ss))
  ELSE SetToBag({Head(ss)}) (+) BagOf(Tail(ss))

\* stack s has run a step and the stacks of ss are there in its place; the
\* stuck goroutines are told from no others, and Leaked is kept once
Put(b, s, ss) ==
  LET n == (b (-) SetToBag({s})) (+) BagOf(ss)
  IN  IF (\E k \in DOMAIN ss : ss[k] # <<>> /\ Stuck(ss[k])) /\ ~BagIn(Leaked, n)
        THEN n (+) SetToBag({Leaked})
        ELSE n

\* The call on top of s returns r ("error" or "answer") to the frame below
\* it: cname returns the error of the exchange and otherwise goes on; the
\* goroutine of enrichPool sends done after its first good response.
ReturnTo(s, r) ==
  LET below == SubSeq(s, 1, Len(s) - 1)
  IN  IF below = <<>> THEN below
      ELSE LET b == Top(below)
           IN  IF b.kind = "exchange"
                 THEN SetTop(below, [b EXCEPT !.st = IF r = "error" THEN "fail" ELSE "cname"])
               ELSE IF r = "answer" /\ ~b.doneCalled
                 THEN SetTop(below, [b EXCEPT !.st = "sending"])
               ELSE below

\* The call on top of s returns r; s is what is left of the stack old, whose
\* other frames are the stacks of ss from now on.  The call marked top is the
\* one Resolver.Exchange made.
ReturnFrom(x, old, s, r, ss) ==
  [x EXCEPT !.stacks = Put(@, old, <<ReturnTo(s, r)>> \o ss),
            !.returned = @ \/ Top(s).top,
            !.result = IF Top(s).top THEN r ELSE @]

Return(x, s, r) == ReturnFrom(x, s, s, r, <<>>)

\* The head of exchange's loop: no more labels, the counter, a zone already
\* known, or the query to the current zone.
SesLoop ==
  \E s \in BagToSet(ses.stacks) :
    /\ Running(s, "exchange", "loop")
    /\ LET f == Top(s)
           n == ses.counter + 1
       IN  IF f.left = 0
             THEN ses' = Return(ses, s, "error")
           ELSE IF ExceedsMax(n)
             THEN ses' = Return([ses EXCEPT !.counter = n], s, "error")
           ELSE \/ /\ f.left > 1
                   /\ ses' = [ses EXCEPT !.counter = n,
                                !.stacks = Put(@, s, <<SetTop(s, [f EXCEPT !.left = @ - 1])>>)]
                \/ ses' = [ses EXCEPT !.counter = n, !.queries = @ + 1,
                             !.stacks = Put(@, s, <<SetTop(s, [f EXCEPT !.st = "query"])>>)]
    /\ UNCHANGED notSessionVars

\* z.exchange returned an error or an empty response.
SesExchangeFails ==
  \E s \in BagToSet(ses.stacks) :
    /\ Running(s, "exchange", "query")
    /\ ses' = Return(ses, s, "error")
    /\ UNCHANGED notSessionVars

\* z.exchange returned an answer: checkForMissingZones asks for the SOA of
\* each of the gap names it skips, then finaliseResponse, which calls cname
\* for an answer that holds CNAME records.
SesAnswer ==
  \E s \in BagToSet(ses.stacks) :
    /\ Running(s, "exchange", "query")
    /\ LET f == Top(s)
       IN  \E gap \in 0..(f.left - 1) :
             \/ \E r \in {"error", "answer"} :
                  ses' = Return([ses EXCEPT !.queries = @ + gap], s, r)
             \/ \E k \in CnameTargets :
                  ses' = [ses EXCEPT !.queries = @ + gap,
                            !.stacks = Put(@, s, <<SetTop(s, [f EXCEPT !.st = "cname",
                                                                       !.more = k])>>)]
    /\ UNCHANGED notSessionVars

\* z.exchange returned a delegation: checkForMissingZones, processDelegation
\* and createZone by the status of the new pool.  A primed pool gives the
\* zone at once; one that needs enhancing has enrichPool started on the side
\* unless LazyEnrichment; one with hostnames only has enrichPool called and
\* waited for; an empty pool or a bad owner name is an error.
SesDelegation ==
  \E s \in BagToSet(ses.stacks) :
    /\ Running(s, "exchange", "query")
    /\ LET f == Top(s)
       IN  \E gap \in 0..(f.left - 1) :
             LET x    == [ses EXCEPT !.queries = @ + gap]
                 next == [f EXCEPT !.st = "loop", !.left = @ - gap - 1]
             IN  \/ ses' = Return(x, s, "error")
                 \/ ses' = [x EXCEPT !.stacks = Put(@, s, <<SetTop(s, next)>>)]
                 \/ /\ ~LazyEnrichment
                    /\ \E k \in EnrichQueries :
                         ses' = [x EXCEPT !.stacks =
                                   Put(@, s, <<SetTop(s, next), <<SelectFrame, EnrichFrame(k)>> >>)]
                 \/ \E k \in EnrichQueries :
                      ses' = [x EXCEPT !.stacks =
                                Put(@, s, <<Append(SetTop(s, [next EXCEPT !.st = "enrichwait"]),
                                                   EnrichFrame(k))>>)]
    /\ UNCHANGED notSessionVars

\* cname's loop: an exchange for the next target, or at the end of the
\* records the rest of finaliseResponse.
SesCname ==
  \E s \in BagToSet(ses.stacks) :
    /\ Running(s, "exchange", "cname")
    /\ LET f == Top(s)
       IN  IF f.more = 0
             THEN \E r \in {"error", "answer"} : ses' = Return(ses, s, r)
             ELSE \E left \in NestedLabelsLeft :
                    ses' = [ses EXCEPT !.stacks =
                              Put(@, s, <<Append(SetTop(s, [f EXCEPT !.more = @ - 1]),
                                                 ExchangeFrame(left))>>)]
    /\ UNCHANGED notSessionVars

\* cname returns the error of the exchange for a target, and finaliseResponse
\* and resolveLabel return it in turn.
SesCnameFails ==
  \E s \in BagToSet(ses.stacks) :
    /\ Running(s, "exchange", "fail")
    /\ ses' = Return(ses, s, "error")
    /\ UNCHANGED notSessionVars

\* The goroutine of enrichPool: an exchange for the next hostname and type,
\* or its end.  Below an enrichPool that a caller waits for, its frame stays
\* until that select is over; an enrichPool started with `go` ends with it.
SesEnrichNext ==
  \E s \in BagToSet(ses.stacks) :
    /\ Running(s, "enrich", "next")
    /\ LET f == Top(s)
       IN  IF f.more = 0
             THEN /\ Len(s) = 1 \/ (Len(s) = 2 /\ s[1].kind = "select")
                  /\ ses' = [ses EXCEPT !.stacks = Put(@, s, <<>>)]
             ELSE \E left \in NestedLabelsLeft :
                    ses' = [ses EXCEPT !.stacks =
                              Put(@, s, <<Append(SetTop(s, [f EXCEPT !.more = @ - 1]),
                                                 ExchangeFrame(left))>>)]
    /\ UNCHANGED notSessionVars

\* enrichPool's select is over for the enrichPool at place i of stack s: the
\* frames above it are the goroutine's own stack from now on, and enrichPool
\* returns to createZone, which makes the zone when the pool is primed.
AfterSelect(x, s, i, primed, above) ==
  LET f     == s[i]
      lower == SubSeq(s, 1, i)
  IN  IF f.kind = "select" THEN [x EXCEPT !.stacks = Put(@, s, <<above>>)]
      ELSE IF primed
        THEN [x EXCEPT !.stacks = Put(@, s, <<SetTop(lower, [f EXCEPT !.st = "loop"]), above>>)]
      ELSE ReturnFrom(x, s, lower, "error", <<above>>)

\* enrichPool's select, the done case: the goroutine hands over done, which
\* has no buffer, and goes on with doneCalled set.
SesEnrichDone ==
  \E s \in BagToSet(ses.stacks), primed \in BOOLEAN :
    /\ Running(s, "enrich", "sending")
    /\ Len(s) >= 2
    /\ s[Len(s) - 1].st = "enrichwait"
    /\ ses' = AfterSelect(ses, s, Len(s) - 1, primed,
                          << [Top(s) EXCEPT !.st = "next", !.doneCalled = TRUE] >>)
    /\ UNCHANGED notSessionVars

\* enrichPool's select, the time.After case: enrichPool returns an error and
\* its goroutine runs on.  The enrichPool that createZone started with `go`
\* has nobody to return to: that it timed out shows only when its goroutine
\* comes to send done, and is taken then.
SesEnrichTimeout ==
  \E s \in BagToSet(ses.stacks) :
    \E i \in DOMAIN s :
      /\ s[i].st = "enrichwait"
      /\ s[i].kind = "select" => Top(s).st = "sending"
      /\ ses' = AfterSelect(ses, s, i, FALSE, SubSeq(s, i + 1, Len(s)))
    /\ UNCHANGED notSessionVars

SessionNext ==
  \/ SesLoop
  \/ SesExchangeFails
  \/ SesAnswer
  \/ SesDelegation
  \/ SesCname
  \/ SesCnameFails
  \/ SesEnrichNext
  \/ SesEnrichDone
  \/ SesEnrichTimeout

LaterIdle ==
  DomainIdle /\ PoolIdle /\ PoolExchangeIdle /\ NameserverIdle /\ DnskeysIdle /\ V6Idle
    /\ HistoryIdle
    /\ MessageIdle
    /\ SessionIdle

CoreIdle == ZonesStart /\ AuthIdle /\ OrderIdle /\ RaIdle /\ ResolverIdle /\ FinaliseIdle

(***************************************************************************)
(* Specifications                                                          *)
(***************************************************************************)
ZonesInit == ZonesStart /\ AuthIdle /\ OrderIdle /\ RaIdle /\ ResolverIdle /\ FinaliseIdle /\ LaterIdle

SpecZones == ZonesInit /\ [][ZonesNext]_vars

AuthInit == ZonesStart /\ AuthStart /\ OrderIdle /\ RaIdle /\ ResolverIdle /\ FinaliseIdle /\ LaterIdle

SpecAuth == AuthInit /\ [][AuthNext]_vars

OrderInit == ZonesStart /\ AuthIdle /\ OrderStart /\ RaIdle /\ ResolverIdle /\ FinaliseIdle /\ LaterIdle

SpecAuthOrder == OrderInit /\ [][OrderNext]_vars

RaInit == ZonesStart /\ AuthIdle /\ OrderIdle /\ RaStart /\ ResolverIdle /\ FinaliseIdle /\ LaterIdle

SpecResAuth == RaInit /\ [][RaNext]_vars

\* The tasks of the resolver-level authenticator; the Go scheduler lets every
\* task that can take a step take it in the end.
MainTask ==
  \/ MainAddResponse
  \/ MainSend
  \/ MainAddDelegationSignerLink
  \/ MainResult
  \/ MainResultWaited
  \/ MainResultClose
  \/ MainVerdict
  \/ MainReturnEarly
  \/ MainClose

DsTask == DsFetched \/ DsSend \/ DsDone

DrainTask == DrainStart \/ DrainReceive \/ DrainProcess

SpecResAuthLive ==
  /\ RaInit
  /\ [][RaNext]_vars
  /\ WF_vars(MainTask)
  /\ WF_vars(DsTask)
  /\ WF_vars(DrainTask)

ResolverInit == ResolverStart /\ AuthIdle /\ OrderIdle /\ RaIdle /\ FinaliseIdle /\ LaterIdle

SpecResolver == ResolverInit /\ [][ResolverNext]_vars

FinaliseInit == ZonesStart /\ AuthIdle /\ OrderIdle /\ RaIdle /\ ResolverIdle /\ FinaliseStart /\ LaterIdle

SpecFinalise == FinaliseInit /\ [][FinaliseNext]_vars

DomainInit ==
  CoreIdle /\ DomainStart /\ PoolIdle /\ PoolExchangeIdle /\ NameserverIdle /\ DnskeysIdle
    /\ V6Idle
    /\ HistoryIdle
    /\ MessageIdle
    /\ SessionIdle

PoolExchangeInit ==
  CoreIdle /\ DomainIdle /\ PoolExchangeStart /\ NameserverIdle /\ DnskeysIdle
    /\ V6Idle
    /\ HistoryIdle
    /\ MessageIdle
    /\ SessionIdle

NameserverInit == CoreIdle /\ LaterIdle

PoolEnrichInit ==
  CoreIdle /\ DomainIdle /\ PoolExchangeIdle /\ NameserverIdle /\ DnskeysIdle
    /\ V6Idle /\ PoolEnrichStart
    /\ HistoryIdle
    /\ MessageIdle
    /\ SessionIdle

DnskeysInit == CoreIdle /\ LaterIdle

IPv6Init == CoreIdle /\ LaterIdle

HistoryInit == CoreIdle /\ LaterIdle

MessageInit ==
  CoreIdle /\ DomainIdle /\ PoolIdle /\ PoolExchangeIdle /\ NameserverIdle /\ DnskeysIdle
    /\ V6Idle /\ HistoryIdle /\ MessageStart
    /\ SessionIdle

SpecMessage == MessageInit /\ [][MessageNext]_vars

SessionInit ==
  CoreIdle /\ DomainIdle /\ PoolIdle /\ PoolExchangeIdle /\ NameserverIdle /\ DnskeysIdle
    /\ V6Idle /\ HistoryIdle /\ MessageIdle /\ SessionStart

\* Every nameserver exchange returns, time.After fires, and a goroutine that
\* can run does.
SpecSession == SessionInit /\ [][SessionNext]_vars /\ WF_vars(SessionNext)

SpecResult == HistoryInit /\ [][HistoryNext]_vars

SpecIPv6 == IPv6Init /\ [][IPv6Next]_vars

SpecDnskeys == DnskeysInit /\ [][DnskeysNext]_vars

SpecPoolEnrich == PoolEnrichInit /\ [][PoolEnrichNext]_vars

SpecNameserver == NameserverInit /\ [][NameserverNext]_vars

SpecPoolExchange == PoolExchangeInit /\ [][PoolExchangeNext]_vars

SpecDomain == DomainInit /\ [][DomainNext]_vars

(***************************************************************************)
(* Claims about the zone store (checked under SpecZones)                   *)
(***************************************************************************)
StoredExpired(n) == zones[n].present /\ PoolExpired(zones[n].expires, now)

\* C8: for every name and at every time, zones.get returns nil when the zone
\* stored under that name has an expired pool, and get leaves the store as it
\* was (the expired entry stays).
C8_GetHidesExpiredAndKeepsStore ==
  /\ \A n \in ZoneNames :
       /\ StoredExpired(n) => ~get(zones, now, n).result.present
       /\ get(zones, now, n).store = zones
  /\ lastCall.op = "get" =>
       /\ lastCall.wasExpired => ~lastCall.result.present
       /\ lastCall.wasExpired => StoredExpired(lastCall.name)
       /\ lastCall.unchanged

C8_Witness ==
  /\ lastCall.op = "get"
  /\ lastCall.wasExpired
  /\ zones[lastCall.name].present

\* the returned chain l for query name q: every apex is q or an ancestor of q,
\* and each element's parent is the apex of the element after it
ChainLinked(q, l) ==
  \A i \in 1..Len(l) :
    /\ l[i].present
    /\ IsSubDomain(l[i].name, q)
    /\ i < Len(l) => l[i].parent = l[i + 1].name

\* C9: every list returned by getZoneList(q) holds only zones whose apex is an
\* ancestor of (or equal to) q, and every adjacent pair (child, parent) in it
\* satisfies child.parent = parent.name.
C9_ZoneListIsLinkedAncestorChain ==
  /\ \A q \in QNames : ChainLinked(q, getZoneList(zones, now, q))
  /\ lastCall.op = "list" => ChainLinked(lastCall.name, lastCall.list)

\* a returned chain that skips a stored, unexpired intermediate zone
C9_Witness ==
  /\ lastCall.op = "list"
  /\ Len(lastCall.list) >= 3
  /\ \E n \in ZoneNames :
       /\ Usable(zones[n], now)
       /\ IsSubDomain(n, lastCall.name)
       /\ \A i \in 1..Len(lastCall.list) : lastCall.list[i].name # n

\* label counts of the unexpired stored ancestors of q, the root aside
UsableAncestors(q) ==
  { k \in 1..Len(q) : Usable(zones[Suffix(q, k)], now) }

\* ... and of those whose parent links reach the root with no missing or
\* expired link
CompleteAncestors(q) ==
  { k \in UsableAncestors(q) :
      FollowParents(zones, now, zones[Suffix(q, k)], <<zones[Suffix(q, k)]>>).complete }

MaxOf(S) == CHOOSE k \in S : \A j \in S : j <= k

\* the chain from the most specific unexpired stored ancestor of q is broken
MostSpecificChainBroken(q) ==
  /\ UsableAncestors(q) # {}
  /\ MaxOf(UsableAncestors(q)) \notin CompleteAncestors(q)

\* C10 as stated: when the chain from the most specific unexpired stored
\* ancestor of the query name has a missing or expired link, getZoneList
\* returns the one-element list holding only the root zone.
C10_Original_BrokenChainGivesRootOnly ==
  lastCall.op = "list" =>
    (MostSpecificChainBroken(lastCall.name) => lastCall.list = <<zones[Root]>>)

\* C10 amended: getZoneList returns the chain of the most specific unexpired
\* stored ancestor whose parent links reach the root unbroken, passing over
\* more specific ancestors whose chain is broken; it returns only the root when
\* no ancestor other than the root has an unbroken chain.
C10_BrokenChainFallsBackToNextAncestor ==
  lastCall.op = "list" =>
    LET q == lastCall.name
        ks == CompleteAncestors(q)
    IN  IF ks = {}
          THEN lastCall.list = <<zones[Root]>>
          ELSE LET z == zones[Suffix(q, MaxOf(ks))]
               IN  lastCall.list = FollowParents(zones, now, z, <<z>>).list

C10_Witness ==
  /\ lastCall.op = "list"
  /\ MostSpecificChainBroken(lastCall.name)
  /\ Len(lastCall.list) >= 2

\* the list l is not empty and ends with the stored root zone
EndsWithRoot(l) ==
  /\ Len(l) >= 1
  /\ l[Len(l)].present
  /\ l[Len(l)].name = Root
  /\ l[Len(l)] = zones[Root]

\* C11: at every time after construction and for every query name,
\* getZoneList returns a non-empty list whose last element is the root zone,
\* and the root zone's pool is never reported expired, also after that pool
\* has been enriched.
C11_ZoneListEndsWithUnexpiredRoot ==
  /\ \A q \in ZoneNames \cup {OtherName} : EndsWithRoot(getZoneList(zones, now, q))
  /\ lastCall.op = "list" => EndsWithRoot(lastCall.list)
  /\ ~PoolExpired(zones[Root].expires, now)

\* the root's pool, shared with a zone cloned from the root, has just been
\* enriched at a later time, and the list for a.b.c. holds more than the root
C11_Witness ==
  /\ lastCall.op = "enrich"
  /\ zones[lastCall.name].present
  /\ lastCall.name # Root
  /\ zones[lastCall.name].pool = zones[Root].pool
  /\ now >= 2
  /\ Len(getZoneList(zones, now, <<"a", "b", "c">>)) >= 2

(***************************************************************************)
(* Claims about dnssec.Authenticator (checked under SpecAuth)              *)
(***************************************************************************)
StrictlyRootToLeaf(rs) ==
  \A i, j \in 1..Len(rs) :
    i < j => CountLabel(rs[i].zone) < CountLabel(rs[j].zone)

IsPrefix(s, t) == Len(s) <= Len(t) /\ SubSeq(t, 1, Len(s)) = s

\* C5: in whatever order responses are submitted to AddResponse, every step
\* only appends to the authenticator's results, and the results are in
\* strictly increasing order of the responding zone's label count.
C5_ResultsAppendedRootToLeaf ==
  [][/\ IsPrefix(auth.results, auth'.results)
     /\ StrictlyRootToLeaf(auth'.results)]_vars

\* A leaf response was submitted before the responses of its ancestors, and
\* all of them have been appended.
C5_Witness ==
  /\ Len(auth.results) = Len(AuthQName) + 1
  /\ authOut.op = "add"
  /\ authOut.zone = Root
  /\ authOut.err = "nil"

(***************************************************************************)
(* Claims about submission order (checked under SpecAuthOrder)             *)
(***************************************************************************)
AllFed == fed.f = Cardinality(Positions(chain)) /\ fed.r = Cardinality(Positions(chain))

\* A valid chain: a response from every zone from the root down to some zone,
\* each signed by its zone with signatures that verify, each but the last a
\* delegation to the next zone, and the last an answer.
ValidChain(c) ==
  /\ Positions(c) # {}
  /\ \A i \in Positions(c) : \A j \in 0..i : j \in Positions(c)
  /\ \A i \in Positions(c) :
       IF i + 1 \in Positions(c)
         THEN c[i] \in {"deleg_ds", "deleg_nods"}
         ELSE c[i] \in {"positive", "nxdomain"}

AnyChainReverseOrderSameResult == AllFed => Result(rev) = Result(fwd)

(***************************************************************************)
(* Claims about the resolver-level authenticator (checked under            *)
(* SpecResAuth)                                                            *)
(***************************************************************************)
\* C7: when result() computes the verdict, every response submitted through
\* addResponse has been handed to the dnssec authenticator, every DS fetch
\* scheduled through addDelegationSignerLink has finished, and every usable
\* DS response has been handed to the dnssec authenticator.
C7_VerdictAfterAllPendingWork ==
  raHist.verdict # "none" =>
    /\ raHist.submitted \subseteq raHist.seen
    /\ \A t \in raHist.scheduled : raHist.seenDs[t] = "done"
    /\ (raHist.scheduled \cap raHist.usable) \subseteq raHist.seen

\* A verdict computed after a submitted response and a DS fetch that gave a
\* usable response.
C7_Witness ==
  /\ raHist.verdict = "Result"
  /\ raHist.submitted # {}
  /\ raHist.scheduled \cap raHist.usable # {}
  /\ raHist.scheduled \ raHist.usable # {}

(***************************************************************************)
(* Claims about the label walk (checked under SpecResolver)                *)
(***************************************************************************)
\* C1: over the top-level exchange and every exchange nested in it, at most
\* MaxQueriesPerRequest loop iterations get past the counter check, and the
\* iteration whose increment takes the counter over MaxQueriesPerRequest
\* returns ErrMaxQueriesPerRequestReached without a query to any zone.
C1_SessionCounterBoundsIterations ==
  [][/\ rhist'.passed <= MaxQueriesPerRequest
     /\ \A i \in WalkIds :
          (/\ walks[i].state = "loop"
           /\ walks'[i] # walks[i]
           /\ counters'[walks[i].ctr] = counters[walks[i].ctr] + 1
           /\ counters'[walks[i].ctr] > MaxQueriesPerRequest)
          => /\ walks'[i].state = "done"
             /\ walks'[i].resp.err = "ErrMaxQueriesPerRequestReached"
             /\ walks'[i].inflight = {}
             /\ rhist'.queries = rhist.queries
             /\ rhist'.passed = rhist.passed]_vars

\* A nested exchange was stopped by the counter it shares with the top-level
\* exchange, after MaxQueriesPerRequest iterations in all.
C1_Witness ==
  \E i \in WalkIds :
    /\ walks[i].state = "done"
    /\ walks[i].kind # "top"
    /\ walks[i].resp.err = "ErrMaxQueriesPerRequestReached"
    /\ rhist.passed = MaxQueriesPerRequest
    /\ counters[1] = MaxQueriesPerRequest + 1

\* C13: when the walker has no more labels and no resolveLabel call has
\* returned a response (every step was a delegation or a known-zone skip),
\* exchange returns ErrUnableToResolveAnswer.
C13_OutOfLabelsIsUnableToResolve ==
  [][\A i \in WalkIds :
       (/\ walks[i].state = "loop"
        /\ ~domainMore(walks[i].qname, walks[i].idx)
        /\ walks'[i].state # "loop")
       => /\ walks'[i].state = "done"
          /\ walks'[i].resp = WalkError("ErrUnableToResolveAnswer")
          /\ counters' = counters
          /\ rhist' = rhist]_vars

\* the top-level exchange was delegated past its query name and returned
\* ErrUnableToResolveAnswer
C13_Witness ==
  \E i \in WalkIds :
    /\ walks[i].kind = "top"
    /\ walks[i].state = "done"
    /\ walks[i].resp.err = "ErrUnableToResolveAnswer"
    /\ zones[BelowName].present
    /\ rhist.queries >= 2

\* the names of the gap that answered with a SOA, shortest first
SoaNames(c) == SelectSeq(c.gap, LAMBDA n : n \in c.soas)

C12_Original_SelfDelegationRunsToTheLimit ==
  \A i \in WalkIds :
    (walks[i].selfd /\ walks[i].state = "done")
      => walks[i].resp.err = "ErrMaxQueriesPerRequestReached"

\* C12 amended: an exchange whose zone answers with a delegation back to
\* itself returns at once with ErrNextNameserversNotFound; no further
\* iteration runs, and no more than MaxQueriesPerRequest iterations have run.
C12_SelfDelegationIsRejectedAtOnce ==
  /\ rhist.passed <= MaxQueriesPerRequest
  /\ \A i \in WalkIds :
       walks[i].selfd
         => /\ walks[i].state = "done"
            /\ walks[i].resp.err = "ErrNextNameserversNotFound"

\* the top-level exchange was delegated to a zone below the root, asked it,
\* and got a delegation back to that zone
C12_Witness ==
  \E i \in WalkIds :
    /\ walks[i].kind = "top"
    /\ walks[i].selfd
    /\ walks[i].state = "done"
    /\ rhist.queries >= 2

WalkStartedAt(w) == Cardinality({ j \in DOMAIN w.how : w.how[j] = "wound" })

\* The claim as first stated: a query for label k, k-1 beyond the zone the
\* walk started from, is in flight only after label k-1 returned a delegation
\* or was skipped by checkForMissingZones, and it is the only one in flight.
C4_Original_DelegatedOrMissingZoneOnly ==
  \A i \in WalkIds :
    /\ Cardinality(walks[i].inflight) <= 1
    /\ \A k \in walks[i].inflight :
         k - 1 > WalkStartedAt(walks[i])
           => walks[i].how[k - 1] \in {"delegated", "cfmz"}

\* C4: the walk is sequential: when the query for label k is in flight it is
\* the only query of its walk in flight, and every earlier label has been
\* settled: wound past at the start, skipped because its zone is already in
\* the store, answered by a delegation, or skipped by checkForMissingZones.
C4_LabelWalkIsSequential ==
  \A i \in WalkIds :
    /\ Cardinality(walks[i].inflight) <= 1
    /\ \A k \in walks[i].inflight :
         /\ walks[i].state = "query"
         /\ k = walks[i].idx
         /\ \A j \in 0..(k - 1) :
              walks[i].how[j] \in {"wound", "known", "delegated", "cfmz"}

\* The query for label 3 is in flight after label 1 was skipped by
\* checkForMissingZones and label 2 answered by a delegation.
C4_Witness ==
  /\ walks[1].state = "query"
  /\ walks[1].inflight = {3}
  /\ walks[1].how[1] = "cfmz"
  /\ walks[1].how[2] = "delegated"

(***************************************************************************)
(* Claims about returned responses (checked under SpecFinalise)            *)
(***************************************************************************)
\* C2: every returned response whose Auth is Secure has the AD bit set or
\* answers a request that had CD set.
C2_SecureHasADUnlessCD ==
  (call.returned /\ call.resp.auth = "Secure") => (call.resp.ad \/ call.req.cd)

\* A Secure response with AD set, CD clear, whose CNAME was followed.
C2_Witness ==
  /\ call.returned
  /\ call.resp.auth = "Secure"
  /\ call.resp.ad
  /\ ~call.req.cd
  /\ call.depth > 0

\* The claim as first stated: every returned response whose Auth is Bogus
\* has rcode SERVFAIL.
C3_Original_BogusIsServfail ==
  (call.returned /\ call.resp.auth = "Bogus") => call.resp.rcode = "SERVFAIL"

\* C3: every returned response whose Auth is Bogus, for a request that did
\* not have CD set, has rcode SERVFAIL.
C3_BogusIsServfailUnlessCD ==
  (call.returned /\ call.resp.auth = "Bogus" /\ ~call.req.cd)
    => call.resp.rcode = "SERVFAIL"

\* A Bogus response for a request with CD clear, made Bogus by the exchange
\* for its CNAME target.
C3_Witness ==
  /\ call.returned
  /\ call.resp.auth = "Bogus"
  /\ ~call.req.cd
  /\ call.depth > 0
  /\ call.resp.rcode = "SERVFAIL"

(***************************************************************************)
(* Claims about the domain walker (checked under SpecDomain)               *)
(***************************************************************************)
Range(f) == { f[k] : k \in DOMAIN f }

\* how often x occurs in the sequence f
Occurrences(f, x) == Cardinality({ k \in DOMAIN f : f[k] = x })

\* the ancestors of target with at least lo and fewer than hi labels,
\* shortest first
AncestorsFrom(target, lo, hi) ==
  IF hi <= lo THEN <<>> ELSE [i \in 1..(hi - lo) |-> Suffix(target, lo + i - 1)]

\* C15: for every name n, a walker made by newDomain(n) and advanced with
\* next() while more() holds yields through current() the root first, then
\* each longer ancestor in turn, label_count(n)+1 distinct names in all, and n
\* itself exactly twice, as the last two yields.
C15_WalkYieldsAncestorsThenNameTwice ==
  LET n == dom.name
      y == dom.yields
  IN  /\ \A k \in 1..Len(y) :
           y[k] = (IF k <= Len(n) + 1 THEN Suffix(n, k - 1) ELSE n)
      /\ ~domainMore(n, dom.idx) =>
           /\ Len(y) = CountLabel(n) + 2
           /\ y[1] = Root
           /\ Cardinality(Range(y)) = CountLabel(n) + 1
           /\ Occurrences(y, n) = 2
           /\ y[Len(y)] = n /\ y[Len(y) - 1] = n

\* the walk over a name of MaxLabels labels has come to its end
C15_Witness ==
  /\ Len(dom.name) = MaxLabels
  /\ ~domainMore(dom.name, dom.idx)
  /\ Len(dom.yields) = MaxLabels + 2

\* the current() of the walker when gap was called
GapCurrent == domainCurrent(dom.name, dom.gap.idx)

\* C16 as stated: when target is a descendant of the walker's current name,
\* gap(target) returns exactly the names strictly between the current name and
\* target, both left out, shortest first.
C16_Original_GapLeavesOutCurrent ==
  (dom.gap.called /\ IsSubDomain(GapCurrent, dom.gap.target))
    => dom.gap.out = AncestorsFrom(dom.gap.target, CountLabel(GapCurrent) + 1,
                                   CountLabel(dom.gap.target))

\* C16 amended: when target is a descendant of the walker's current name and
\* an ancestor of (or equal to) the walker's full name, gap(target) returns the
\* current name and every name between it and target, target left out,
\* shortest first; for a target that is not an ancestor of the full name it
\* returns nothing.
C16_GapStartsAtCurrent ==
  dom.gap.called =>
    /\ (IsSubDomain(GapCurrent, dom.gap.target) /\ IsSubDomain(dom.gap.target, dom.name))
         => dom.gap.out = AncestorsFrom(dom.gap.target, CountLabel(GapCurrent),
                                        CountLabel(dom.gap.target))
    /\ ~IsSubDomain(dom.gap.target, dom.name) => dom.gap.out = <<>>

\* a gap of two names, asked for in mid-walk
C16_Witness ==
  /\ dom.gap.called
  /\ dom.gap.idx >= 1
  /\ IsSubDomain(GapCurrent, dom.gap.target)
  /\ Len(dom.gap.out) = 2
  /\ dom.gap.out[1] = GapCurrent

(***************************************************************************)
(* Claims about the nameserver pool                                        *)
(***************************************************************************)
Contacts(c) == { k \in DOMAIN px[c].attempts : px[c].attempts[k].server # NoServer }

SameServer(a, b) == a.fam = b.fam /\ a.server = b.server

\* C17: a pool exchange makes at most two attempts and so contacts at most
\* two servers; once the call has returned, a second attempt was made exactly
\* when the response of the first was empty, errored or truncated; the
\* second attempt goes to an IPv4 server when the pool had one as the call
\* read it and to an IPv6 server otherwise; and when no other call ran
\* during this one and the family of the retry has two servers or more, the
\* retry went to another server than the first attempt.
C17_RetryOnceToTheOtherServer ==
  \A c \in Callers :
    LET a == px[c].attempts
    IN  /\ Len(a) <= 2
        /\ Cardinality(Contacts(c)) <= 2
        /\ Len(a) = 2 => a[1].bad
        /\ px[c].pc = "done" /\ px[c].err = "nil" => Len(a) >= 1 /\ (Len(a) = 2 <=> a[1].bad)
        /\ Len(a) = 2 =>
             /\ a[2].server # NoServer
             /\ a[2].fam = (IF px[c].hasIPv4 THEN "ipv4" ELSE "ipv6")
             /\ px[c].alone /\ px[c].retryCount >= 2 => ~SameServer(a[1], a[2])

\* a call that ran alone retried within the family of its first attempt
C17_Witness ==
  \E c \in Callers :
    /\ px[c].pc = "done"
    /\ px[c].alone
    /\ Len(px[c].attempts) = 2
    /\ px[c].attempts[1].fam = px[c].attempts[2].fam
    /\ px[c].attempts[1].server # NoServer
    /\ px[c].retryCount >= 2

\* C19: for a pool whose expiry is set, enrich leaves the expiry equal to
\* the earlier of the expiry it had and now + the least TTL of the records
\* added, and never later than it was.
C19_EnrichKeepsTheEarlierExpiry ==
  pe.called /\ pe.expires > 0 =>
    /\ pool.expires <= pe.expires
    /\ pe.added # {} => pool.expires = MinOf({pe.expires, pe.at + MinOf(pe.added)})

(***************************************************************************)
(* Claims about one nameserver                                             *)
(***************************************************************************)
Protocols(a) == [k \in DOMAIN a |-> a[k].protocol]

\* C18 as stated: every exchange attempts UDP first
C18_Original_AlwaysAttemptsUDP ==
  srv.pc = "done" => Len(srv.attempts) >= 1 /\ srv.attempts[1].protocol = "udp"

\* C18: an exchange of a message that is not nil attempts UDP first,
\* attempts TCP exactly when the UDP attempt returned an error or a
\* truncated response, makes no attempt after that, and returns the result
\* of the last attempt that ran; an exchange of a nil message makes no
\* attempt and returns ErrNilMessageSentToExchange.
C18_UdpThenTcpOnErrorOrTruncation ==
  LET a == srv.attempts
  IN  /\ Protocols(a) \in {<<>>, <<"udp">>, <<"udp", "tcp">>}
      /\ Len(a) = 2 => a[1].outcome \in {"error", "truncated"}
      /\ srv.pc = "done" /\ ~srv.msgNil =>
            /\ Len(a) >= 1
            /\ Len(a) = 2 <=> a[1].outcome \in {"error", "truncated"}
            /\ srv.result.outcome = a[Len(a)].outcome
      /\ srv.pc = "done" /\ srv.msgNil =>
            /\ a = <<>>
            /\ srv.result.err = "ErrNilMessageSentToExchange"

\* an exchange fell back to TCP after a truncated UDP response and returned
\* what TCP gave
C18_Witness ==
  /\ srv.pc = "done"
  /\ Len(srv.attempts) = 2
  /\ srv.attempts[1].outcome = "truncated"
  /\ srv.result.outcome = srv.attempts[2].outcome

(***************************************************************************)
(* Claims about the DNSKEY cache                                           *)
(***************************************************************************)
\* the latest dnskeys call is the one that received an answer without
\* records, or came in the sixty seconds after it
SinceEmptyAnswer ==
  /\ zk.last.called
  /\ zk.emptyAt > 0
  /\ zk.emptyAt <= zk.last.at
  /\ zk.last.at <= zk.emptyAt + NegativeCacheSeconds

\* C20: once dnskeys has received a successful response without answers,
\* every dnskeys call of the following 60 seconds sends no query and
\* returns no keys and no error, whatever rrset an earlier fetch had cached.
C20_EmptyAnswerIsCachedAsEmpty ==
  SinceEmptyAnswer =>
    /\ zk.last.queried => zk.last.at = zk.emptyAt
    /\ zk.last.keys = "nil"
    /\ zk.last.err = "nil"

\* the tasks that called dnskeys together on an empty or expired cache have
\* all returned, and every fetch among them brought an rrset
BatchFetched ==
  /\ zk.batch.members # {}
  /\ zk.waiting = {}
  /\ zk.batch.stale
  /\ \A c \in zk.batch.members : zk.rets[c].err = "nil" /\ zk.rets[c].keys # "nil"

\* one DNSKEY query for the tasks together, and one rrset for all of them
OneFetchForAll ==
  /\ zk.calls = zk.batch.calls0 + 1
  /\ \A c, d \in zk.batch.members : zk.rets[c].keys = zk.rets[d].keys

\* C21 as stated: tasks that call dnskeys together on an empty or expired
\* cache cause one DNSKEY query and all receive its rrset
C21_Original_OneQueryForConcurrentCallers == BatchFetched => OneFetchForAll

\* C21: tasks that call dnskeys together on an empty or expired cache cause
\* one DNSKEY query and all receive its rrset, provided each of them gets
\* the lock no later than the expiry the first fetch stored; a task that
\* gets the lock after that expiry sends a DNSKEY query of its own.
C21_OneQueryWhileTheRrsetLasts ==
  BatchFetched =>
    /\ (\A c \in zk.batch.members : zk.rets[c].at <= zk.batch.firstExpiry)
         => OneFetchForAll
    /\ \A c \in zk.batch.members :
         zk.rets[c].queried \/ zk.rets[c].at <= zk.batch.firstExpiry

\* two tasks called together; the second got the lock a second after the
\* first and was served from the cache
C21_Witness ==
  /\ BatchFetched
  /\ zk.batch.members = Tasks
  /\ OneFetchForAll
  /\ \E c, d \in Tasks : zk.rets[c].at < zk.rets[d].at /\ ~zk.rets[d].queried

(***************************************************************************)
(* Claims about the IPv6 probe                                             *)
(***************************************************************************)
\* C22: however many IPv6Available calls run together, the probe function is
\* started at most once; a call returns within its two tests, also while
\* the probe is running; and no call returns true before the probe has
\* stored that IPv6 is available.
C22_ProbeStartedOnceAndNeverAwaited ==
  /\ v6.started <= 1
  /\ v6.ipv6Check = "new" <=> v6.started = 0
  /\ \A c \in Tasks :
       /\ v6.pc[c] \in {"idle", "unanswered"}
       /\ v6.ret[c] = "true" => v6.recorded
       /\ v6.pc[c] = "idle" /\ v6.ret[c] # "none" /\ ~v6.recorded => v6.ret[c] = "false"

\* a call returned false while the probe it did not start was running, and
\* more goroutines than one have called ipv6Check.Do
C22_Witness ==
  /\ v6.started = 1
  /\ v6.ipv6Check = "done"
  /\ v6.calls >= 2
  /\ \E c \in Tasks : v6.during[c] /\ v6.ret[c] = "false"

(***************************************************************************)
(* Claims about Result                                                     *)
(***************************************************************************)
\* the result before place i proves that the chain may stop being secure
\* there: an opt-out, a missing DS, or no data for the DS of the zone at i
ProvesInsecureDelegation(rs, i) ==
  \/ rs[i - 1].denialOfExistence \in {"Nsec3OptOut", "NsecMissingDS", "Nsec3MissingDS"}
  \/ /\ rs[i - 1].denialOfExistence \in NoDataStates
     /\ rs[i - 1].msg.qtype = "DS"
     /\ rs[i - 1].msg.question = rs[i].zone

\* C23: with no Bogus result and the first result that is not Secure at a
\* place after the first, Result returns Insecure when the result before it
\* carries Nsec3OptOut, NsecMissingDS or Nsec3MissingDS, or NsecNoData or
\* Nsec3NoData for a DS question at the apex of the zone at that place,
\* and Bogus in every other case.
C23_BreakInChainNeedsProofOfNoDS ==
  LET rs == rh.results
      i  == FirstNotSecure(rs)
  IN  rh.called /\ FirstBogus(rs) = 0 /\ i > 1 =>
        rh.out.state = IF ProvesInsecureDelegation(rs, i) THEN "Insecure" ELSE "Bogus"

\* C24: Result on an empty history returns Unknown, NotFound and the error
\* ErrNoResults.
C24_EmptyHistoryIsErrNoResults ==
  rh.called /\ rh.results = <<>> =>
    rh.out = Triple("Unknown", "NotFound", "ErrNoResults")

\* C25: when a result of the history is Bogus, wherever it stands and
\* whatever the others are, Result returns Bogus, NotFound and the error of
\* the first Bogus result.
C25_AnyBogusIsBogus ==
  LET rs == rh.results
      S  == { i \in DOMAIN rs : rs[i].state = "Bogus" }
  IN  rh.called /\ S # {} =>
        /\ rh.out.state = "Bogus"
        /\ rh.out.doe = "NotFound"
        /\ \E i \in S : rh.out.err = rs[i].err /\ \A j \in S : i <= j

\* Result was called on a history whose Bogus result is neither the first
\* nor the last, between a Secure result with a proof and an Insecure one
C25_Witness ==
  /\ rh.called
  /\ Len(rh.results) = Len(HistoryZones)
  /\ rh.results[1].state = "Secure" /\ rh.results[1].denialOfExistence = "Nsec3OptOut"
  /\ rh.results[2].state = "Bogus"
  /\ rh.results[Len(rh.results)].state = "Insecure"
  /\ rh.out.err = rh.results[2].err

(***************************************************************************)
(* Claims about processResponse and AddResponse (checked under SpecAuth)   *)
(***************************************************************************)
\* the responses that AddResponse would hand to processResponse at once:
\* those of the zone whose place in the buffer is the next to be processed
NextInputs ==
  UNION { { Input(z, MkMsg(z, kind)) : kind \in Kinds(z) } :
            z \in { y \in AuthZones : /\ IsSubDomain(y, auth.question)
                                      /\ CountLabel(y) = auth.inputBufferIdx } }

\* the message carries an RRSIG whose signer is not the owner of the DS
\* records of the last accepted result (of the trust anchors, before the
\* first result)
SignerIsNotDSOwner(in) ==
  /\ in.msg.signer # NoSigner
  /\ LastAccepted(auth).dsRecords # NoDS
  /\ LastAccepted(auth).dsRecords # in.msg.signer

\* C26 as stated: a signer other than the owner of the last DS records is
\* always answered with MissingDSRecordError
C26_Original_SignerMismatchIsMissingDS ==
  \A in \in NextInputs :
    auth.results # <<>> /\ SignerIsNotDSOwner(in) =>
      processResponse(auth, in.zone, in.msg) = Outcome(auth, "MissingDSRecordError")

\* C26: when a processed message carries an RRSIG, the last accepted result
\* holds DS records and the signer of the first RRSIG is not their owner,
\* processResponse appends nothing and returns MissingDSRecordError if the
\* signer is the target name or an ancestor of it, and ErrNotSubdomain if
\* it is not.
C26_SignerMismatchIsMissingDSOrNotSubdomain ==
  \A in \in NextInputs :
    SignerIsNotDSOwner(in) =>
      processResponse(auth, in.zone, in.msg) =
        Outcome(auth, IF IsSubDomain(in.msg.signer, auth.question)
                        THEN "MissingDSRecordError" ELSE "ErrNotSubdomain")

\* after a delegation with DS records was accepted, AddResponse returned
\* MissingDSRecordError for the response of a zone further down
C26_Witness ==
  /\ authOut.op = "add"
  /\ authOut.err = "MissingDSRecordError"
  /\ auth.results # <<>>
  /\ auth.inputBuffer[auth.inputBufferIdx].present
  /\ SignerIsNotDSOwner(auth.inputBuffer[auth.inputBufferIdx])

\* every response that can be handed to AddResponse
AllInputs == UNION { { Input(z, MkMsg(z, kind)) : kind \in Kinds(z) } : z \in AuthZones }

Reach(r) == [msg |-> r, question |-> mh.msgs[r].question]

Apart(r, s) == Reach(r).msg # Reach(s).msg /\ Reach(r).question # Reach(s).question

\* C28: Resolver.Exchange never modifies the message of the caller: at every
\* point of a call the caller's message and its Question slice hold what was
\* passed in, no write has gone to the caller's message, and the message the
\* resolution works on and the message of the response are objects apart from
\* the caller's, sharing nothing with it.
C28_CallerMessageIsNeverModified ==
  /\ mh.msgs[mh.qmsg] = mh.given.msg
  /\ mh.questions[mh.msgs[mh.qmsg].question] = mh.given.question
  /\ mh.qmsg \notin mh.written
  /\ mh.work # NoMessage => Apart(mh.work, mh.qmsg)
  /\ mh.response # NoMessage => Apart(mh.response, mh.qmsg)

\* a call returned a response whose AD bit finaliseResponse set
C28_Witness ==
  /\ mh.pc = "returned"
  /\ mh.err = "nil"
  /\ mh.work # NoMessage
  /\ mh.response \in mh.written
  /\ mh.msgs[mh.response].ad
  /\ mh.msgs[mh.response].ra
  /\ ~mh.msgs[mh.qmsg].ra

(***************************************************************************)
(* Claims about the parent of a stored zone                                *)
(***************************************************************************)
StrictAncestor(parent, name) == parent # name /\ IsSubDomain(parent, name)

StoredZones == { zones[n] : n \in { m \in DOMAIN zones : zones[m].present } }

\* C29: every zone in the store other than the root has a parent name that
\* is a strict ancestor of its apex, never the apex itself and never a name
\* the apex does not lie below, whether processDelegation and createZone or
\* checkForMissingZones and clone made it.
C29_ParentIsAStrictAncestor ==
  \A z \in StoredZones : z.name # Root => StrictAncestor(z.parent, z.name)

\* the store holds a zone that a delegation made and a zone that clone made
C29_Witness ==
  /\ \E i \in WalkIds : \E k \in DOMAIN walks[i].how :
       /\ walks[i].how[k] = "delegated"
       /\ walks[i].z \in DOMAIN zones
       /\ zones[walks[i].z].present
  /\ rhist.cfmz.made # <<>>
  /\ \A k \in DOMAIN rhist.cfmz.made : rhist.cfmz.made[k] \in StoredZones

(***************************************************************************)
(* Claims about the end of a Resolver.Exchange call                        *)
(***************************************************************************)
LongestWalk == CHOOSE n \in LabelsLeft : \A m \in LabelsLeft : m <= n

\* the zone queries one call can make: for each loop iteration the counter
\* lets pass, the query of resolveLabel and the SOA queries for the gap
QueryLimit == MaxQueriesPerRequest * LongestWalk

\* a loop iteration that takes the counter over the limit asks no zone
CounterStopsTheLoop ==
  ses'.counter > ses.counter /\ ses'.counter > MaxQueriesPerRequest
    => ses'.queries = ses.queries

\* C30: when every nameserver exchange returns, a Resolver.Exchange call
\* returns, whatever the servers answer (CNAME records that lead to further
\* CNAME records, zones delegated to hostnames that need exchanges of their
\* own); once the counter is used up no loop iteration of any exchange asks a
\* zone, the zone queries of the call and of every exchange nested in it
\* never number more than QueryLimit, and in the end no exchange that the
\* call started is left running.
C30_ExchangeTerminates ==
  /\ [][CounterStopsTheLoop]_vars
  /\ [](ses.queries <= QueryLimit)
  /\ <>ses.returned
  /\ <>[](BagToSet(ses.stacks) \subseteq {Leaked})

\* the call has returned an error after nested exchanges used up the counter,
\* and everything it started has come to its end
C30_Witness ==
  /\ ses.returned
  /\ ses.result = "error"
  /\ ses.counter > MaxQueriesPerRequest
  /\ ses.queries >= MaxQueriesPerRequest
  /\ ses.stacks = EmptyBag

(***************************************************************************)
(* Claims about the zones the label walk creates and adopts                *)
(***************************************************************************)
\* C31: checkForMissingZones never calls clone with a name that is the
\* current zone's apex or not below it, so no walk ends in the "invalid
\* clone" panic; this includes the walk whose name at the wind-to position is
\* the apex of the zone it holds, because that zone expired between
\* getZoneList and the loop's get.
C31_ClonePanicIsUnreachable ==
  /\ ~rhist.cfmz.panic
  /\ \A i \in WalkIds : walks[i].resp.err # "panic"

\* the walks that hold a zone: started and not yet returned
Walking == { i \in WalkIds : walks[i].state \notin {"free", "done"} }

\* C32: at every step of the label walk the current zone's apex is the query
\* name or an ancestor of it, and every zone in the store lies on the path
\* from the root to a query name: a delegation whose NS owner is below the
\* current zone but is no ancestor of the query name is neither adopted as
\* the current zone nor added to the store.
C32_CurrentZoneIsOnThePathToTheQName ==
  /\ \A i \in Walking : IsSubDomain(walks[i].z, walks[i].qname)
  /\ \A z \in StoredZones :
       IsSubDomain(z.name, TopQName) \/ IsSubDomain(z.name, NestedQName)

\* C33: for a query with DO set, every zone other than the root that the walk
\* holds as its current zone has had its DS records put before the
\* authenticator, by a DS fetch for its apex or by the parent's delegation
\* response; this includes a zone adopted by the known-zone shortcut that was
\* not in the list getZoneList returned.
C33_AdoptedZoneHasItsDSLink ==
  \A i \in Walking : walks[i].z # Root => walks[i].z \in walks[i].linked

(***************************************************************************)
(* Claims about the AD bit of a returned message                           *)
(***************************************************************************)
\* C34: a message that Resolver.Exchange returns with the AD bit set belongs
\* to a response whose Auth is Secure; the AD bit of an upstream answer is
\* not passed on to the caller when the request had DO clear or CD set.
C34_ADOnlyOnSecure ==
  (call.returned /\ call.resp.msg /\ call.resp.ad)
    => (call.resp.auth = "Secure" /\ call.req.do /\ ~call.req.cd)

(***************************************************************************)
(* Claims about the input buffer of the dnssec authenticator               *)
(***************************************************************************)
\* the buffered inputs that processResponse has not accepted into the history
Unprocessed(a) ==
  { k \in DOMAIN a.inputBuffer : a.inputBuffer[k].present /\ k >= a.inputBufferIdx }

\* C35: whenever Result returns Secure with no error, every input that
\* AddResponse accepted into the buffer has been processed into the history;
\* none is left unprocessed behind an empty slot of smaller label count.
C35_SecureMeansEveryInputProcessed ==
  (authOut.op = "result" /\ authOut.verdict.state = "Secure"
     /\ authOut.verdict.err = "nil")
    => Unprocessed(auth) = {}

(***************************************************************************)
(* Claims about the resolver-level authenticator's errors and tasks        *)
(***************************************************************************)
\* C36: if one or more AddResponse calls of the draining task returned an
\* error, result() returns a recorded error and not what a.auth.Result()
\* says, however many errors were recorded.
C36_AnyRecordedErrorIsReturned ==
  (raHist.verdict # "none" /\ ra.errors >= 1) => raHist.verdict = "error"

\* the tasks that have announced an input and not yet put it on the queue,
\* and the DS tasks that may still come to that point
Senders ==
  (IF raPc.main = "send" THEN {0} ELSE {}) \cup { t \in InputIds : raPc.ds[t] = "send" }

Fetching == { t \in InputIds : raPc.ds[t] = "fetch" }

\* C37: no task sends on the queue after close() has closed it: once the
\* queue is closed neither addResponse nor a DS task is at its send or has
\* its send still to come, and a task at its send either finds room in the
\* queue or has the draining task receiving from it, in every interleaving of
\* the DS tasks with result() and close().
C37_NoSendAfterClose ==
  /\ ra.closed => (Senders = {} /\ Fetching = {})
  /\ Senders # {} =>
       (Len(ra.queue) < QueueCap \/ raPc.drain \in {"spawned", "recv", "process"})

\* the queue is closed after addResponse and a DS task each sent an input
\* that the draining task handed to the dnssec authenticator
C37_Witness ==
  /\ ra.closed
  /\ \E k \in raHist.submitted : k \in ra.auth
  /\ \E t \in raHist.usable : raPc.ds[t] = "done" /\ t \in ra.auth

\* C38: the draining task that newAuthenticator starts terminates in the end
\* once close() or result() has closed the queue, in every interleaving of
\* its start with close(), also when close() runs before the task has read
\* a.queue for the first time.
C38_DrainingTaskTerminates == ra.closed ~> (raPc.drain = "exit")

(***************************************************************************)
(* Claims about the goroutine of enrichPool                                *)
(***************************************************************************)
\* C39: every goroutine that enrichPool starts comes to its end once its
\* exchanges have returned, also when its first good answer comes only after
\* the select of enrichPool has timed out: in the end nothing that the call
\* started is left.
C39_EveryEnrichmentTaskTerminates == <>[](ses.stacks = EmptyBag)

(***************************************************************************)
(* Claims about how often a buffered input is processed                    *)
(***************************************************************************)
\* C40: an input accepted into the buffer is passed to processResponse at
\* most once, also when processResponse returned an error for it and further
\* responses are added afterwards.
C40_EachInputProcessedAtMostOnce ==
  \A k \in DOMAIN authOut.passed : authOut.passed[k] <= 1

====
